---- MODULE Spec2Model ----
(***************************************************************************)
(* Model of the bounded-concurrency batch enrichment engine:               *)
(*   PharmaCrew.analyze / process_batch / process_batch_async              *)
(*     (src/conference/src/conference/crews/pharma_crew/pharma_crew.py)    *)
(*   AsyncAttendeeProcessor.process_attendees / process_attendee           *)
(*     (.../crews/pharma_crew/async_attendee_processor.py)                 *)
(*                                                                         *)
(* Outer tier: a ThreadPoolExecutor of min(max_workers, total_batches)     *)
(* threads runs process_batch(i) for every batch index i.  Inner tier:     *)
(* each batch runs its own event loop, in which asyncio.gather drives one  *)
(* task per attendee under an asyncio.Semaphore(max_concurrent_searches).  *)
(* Batch indices are 0-based as in the code; positions inside a batch and  *)
(* inside the attendee list are 1-based (TLA+ sequences).                  *)
(***************************************************************************)
EXTENDS Integers, Sequences, FiniteSets, TLC

(* ---- bounds of the model ---- *)
MaxAttendees == 3
MaxBatchSize == 2
MaxWorkers == 2
MaxRecords == 2
MaxKeys == 2
MaxElements == 2
MaxEmail == 4
MaxCalls == 2
MaxBatches == 2
MaxRows == 3

(* rate_limit_delay=0.5 passed by process_batch_async, in tenths of a second *)
rate_limit_delay == 5

VARIABLES
    attendees,                \* self.attendees: the item list
    batch_size,               \* self.batch_size
    max_workers,              \* self.max_workers
    max_concurrent_searches,  \* self.max_concurrent_searches
    total_batches,            \* self.total_batches
    all_results,              \* self.all_results
    apc,                      \* position of the thread running analyze
    submitted,                \* number of executor.submit calls made
    collected,                \* batches the as_completed loop has handled
    retval,                   \* value returned by analyze
    bpc,                      \* per batch: position of its pipeline
    tpc,                      \* per batch: position of each item task
    tres,                     \* per batch: value each item task returned
    sem,                      \* per batch: free permits of its semaphore
    search_results,           \* per batch: list returned by process_attendees
    future,                   \* per batch: value process_batch returned
    how,                      \* per batch: "ok" (records of a parse) or "discarded"
    raised,                   \* per batch: tasks whose execute_async call raised
    results_lock,             \* self.results_lock: "free" or the thread holding it
    loop_batch_index,         \* analyze: batch_index of the loop body being run, else -1
    input_data,               \* execute_async: its argument
    query,                    \* execute_async: the query handed to _run_async
    xpc,                      \* execute_async: position of the call
    xret,                     \* execute_async: the value returned
    raw,                      \* repair of a response: result.raw
    cleaned_text,             \* repair of a response: cleaned_text
    batch_results,            \* repair of a response: the value returned
    rpc,                      \* repair of a response: position
    attendee,                 \* process_attendee: its argument
    result,                   \* process_attendee: the dict returned
    ppc,                      \* process_attendee: position of the call
    email,                    \* extract_company_from_email: its argument
    company,                  \* extract_company_from_email: the value returned
    tasks_config,             \* self.tasks_config["analyze_attendees"]["description"]
    _async_clients,           \* async_web_search_tool._async_clients
    completed,                \* per batch: its item tasks in the order they returned
    current_batch,            \* process_batch in both modes: the batch handed over
    enrichment_calls,         \* per mode: calls of execute_async made for the batch
    classified,               \* per mode: what the task description is built from
    kickoff,                  \* both modes: what crew.kickoff() did
    returned,                 \* per mode: the value process_batch returned
    mpc,                      \* process_batch in both modes: position
    lists,                    \* analyze called again: the list objects created so far
    self_all_results,         \* analyze called again: the list self.all_results is bound to
    calls_made,               \* analyze called again: number of calls of analyze so far
    to_collect,               \* analyze called again: batches the loop has not handled yet
    analyze_returns,          \* analyze called again: per call, the list returned
    cpc,                      \* analyze called again: position
    attendees_by_email,       \* preprocess_attendee_data: the records kept, in insertion order
    row_count,                \* preprocess_attendee_data: rows read so far
    skipped_rows,             \* preprocess_attendee_data: rows skipped so far
    preprocessed,             \* preprocess_attendee_data: the value returned
    dpc                       \* preprocess_attendee_data: position

vars == <<attendees, batch_size, max_workers, max_concurrent_searches,
          total_batches, all_results, apc, submitted, collected, retval,
          bpc, tpc, tres, sem, search_results, future, how, raised,
          results_lock, loop_batch_index, input_data, query, xpc, xret,
          raw, cleaned_text, batch_results, rpc,
          attendee, result, ppc, email, company,
          tasks_config, _async_clients, completed,
          current_batch, enrichment_calls, classified, kickoff, returned, mpc,
          lists, self_all_results, calls_made, to_collect, analyze_returns, cpc,
          attendees_by_email, row_count, skipped_rows, preprocessed, dpc>>

config == <<attendees, batch_size, max_workers, max_concurrent_searches>>

(* what the batch pipelines of a run can all reach besides the fields of   *)
(* config: the task configuration loaded by _load_configuration and the    *)
(* module-level list of the enrichment client                              *)
shared == <<tasks_config, _async_clients>>

(* the description in the YAML file, with its placeholders *)
Template == "template"

SharedInit == tasks_config = Template /\ _async_clients = <<>>

(* the state of the as_completed loop body of analyze *)
locking == <<results_lock, loop_batch_index>>

(* the state of a call of AsyncWebSearchTool.execute_async *)
tool == <<input_data, query, xpc, xret>>

(* the state of the repair of one response (process_batch_async, after    *)
(* crew.kickoff() has returned)                                            *)
repair == <<raw, cleaned_text, batch_results, rpc>>

(* the state of a call of process_attendee and of a call of               *)
(* extract_company_from_email                                              *)
person == <<attendee, result, ppc, email, company>>

(* one batch taken through process_batch in both modes side by side       *)
modes == <<current_batch, enrichment_calls, classified, kickoff, returned, mpc>>

(* several calls of analyze on one instance, as far as the list objects    *)
(* of self.all_results are concerned                                       *)
runs == <<lists, self_all_results, calls_made, to_collect, analyze_returns, cpc>>

(* one call of utils.preprocess_attendee_data *)
prep == <<attendees_by_email, row_count, skipped_rows, preprocessed, dpc>>

(* what is followed besides a run, a call of the tool, a repair and an     *)
(* attendee                                                                *)
more == <<modes, runs, prep>>

(* the calls followed on their own, outside a run of analyze *)
calls == <<tool, repair, person, more>>

(* no call of execute_async is being followed *)
NoInput == [type |-> "none", d |-> <<>>, loads |-> "none"]
ToolIdle == input_data = NoInput /\ query = "" /\ xpc = "idle" /\ xret = ""

(* no repair is being followed *)
RepairIdle ==
    /\ raw = <<>> /\ cleaned_text = <<>> /\ rpc = "idle"
    /\ batch_results = [tag |-> "none", v |-> <<>>]

(* no batch is being taken through both modes *)
Modes == {"async", "crew"}
ModesIdle ==
    /\ current_batch = <<>>
    /\ enrichment_calls = [m \in Modes |-> 0]
    /\ classified = [m \in Modes |-> "none"]
    /\ kickoff = [kind |-> "none", raw |-> <<>>]
    /\ returned = [m \in Modes |-> [tag |-> "none", v |-> <<>>]]
    /\ mpc = "idle"

(* PharmaCrew.__init__: self.all_results = [] is the first list object *)
RunsIdle ==
    /\ lists = <<(<<>>)>>
    /\ self_all_results = 1
    /\ calls_made = 0
    /\ to_collect = {}
    /\ analyze_returns = <<>>
    /\ cpc = "idle"

(* no call of preprocess_attendee_data is being followed *)
PrepIdle ==
    /\ attendees_by_email = <<>>
    /\ row_count = 0
    /\ skipped_rows = 0
    /\ preprocessed = [tag |-> "none", v |-> <<>>]
    /\ dpc = "idle"

MoreIdle == ModesIdle /\ RunsIdle /\ PrepIdle

(* no call of process_attendee or extract_company_from_email is followed *)
Str(s) == [type |-> "str", s |-> s]
None == [type |-> "None", s |-> <<>>]
NoAttendee == [first_name |-> <<>>, last_name |-> <<>>, organization |-> <<>>,
               email |-> None]
NoResult == [person_name |-> <<>>, organization |-> <<>>, email |-> <<>>,
             company_domain |-> <<>>, search_result |-> "none"]
PersonIdle ==
    /\ attendee = NoAttendee /\ result = NoResult /\ ppc = "idle"
    /\ email = None /\ company = None

Min(a, b) == IF a < b THEN a ELSE b

CeilDiv_Floor(n, b) == n \div b

(* (len + batch_size - 1) // batch_size *)
CeilDiv(n, b) == (n + b - 1) \div b

(* The attendee lists: an attendee dict is identified by its position in   *)
(* the list.  Whether its 'email' value is a string is read when the item  *)
(* is processed (EnterAttendee): each item is inspected once.              *)
AttendeeLists == {[k \in 1..n |-> k] : n \in 0..MaxAttendees}

Batches == 0..(total_batches - 1)

BatchStart_Overlap(batch_index) == batch_index * (batch_size - 1)

(* preprocess_attendees: the slice attendees[batch_start:batch_end] *)
BatchStart(batch_index) == batch_index * batch_size
BatchEnd(batch_index) == Min(BatchStart(batch_index) + batch_size, Len(attendees))
preprocess_attendees(batch_index) ==
    SubSeq(attendees, BatchStart(batch_index) + 1, BatchEnd(batch_index))

(* ---- values ---- *)
NoOutcome == [item |-> 0, search_result |-> "none"]

(* result dict of process_attendee; item stands for the fields copied from *)
(* the attendee (person_name, organization, email, company_domain)         *)
Outcome(item, sr) == [item |-> item, search_result |-> sr]

(* what search_tool.execute_async does for one call *)
SearchOutcomes == {"text", "raise"}

(* Value of json.loads: a list of n elements, a dict of n keys, a scalar   *)
(* (number, true, false, null), or JSONDecodeError.  A JSON string has a    *)
(* length and is iterated as a dict is (extend adds its characters); it is  *)
(* followed as a value of its own in the repair of a response below.        *)
Parsed(tag, n) == [tag |-> tag, n |-> n]
ParseFail == Parsed("fail", 0)

(* What crew.kickoff() does: returns a result whose raw text is described  *)
(* by the strict parse of clean_json_text(raw) and the parse of the        *)
(* character-filtered text, or raises.                                      *)
Kick(kind, strict, filtered) == [kind |-> kind, strict |-> strict, filtered |-> filtered]

KickoffOutcomes ==
    {Kick("text", Parsed("array", n), ParseFail) : n \in 0..MaxRecords}
    \cup {Kick("text", Parsed("object", 1), ParseFail),
          Kick("text", Parsed("scalar", 0), ParseFail),
          Kick("text", ParseFail, Parsed("array", 1)),
          Kick("text", ParseFail, Parsed("scalar", 0)),
          Kick("text", ParseFail, ParseFail),
          Kick("telemetry_error", ParseFail, ParseFail),
          Kick("other_error", ParseFail, ParseFail)}

(* ---- initial state: PharmaCrew.__init__ ---- *)
(* max_concurrent_searches ranges up to batch_size: a batch never has more *)
(* than batch_size tasks, so a larger cap makes the same steps as the cap  *)
(* batch_size.                                                             *)
Init ==
    /\ attendees \in AttendeeLists
    /\ batch_size \in 1..MaxBatchSize
    /\ max_workers \in 0..MaxWorkers
    /\ max_concurrent_searches \in 0..batch_size
    /\ total_batches = IF Len(attendees) > 0 THEN CeilDiv(Len(attendees), batch_size) ELSE 0
    /\ all_results = <<>>
    /\ apc = "start"
    /\ submitted = 0
    /\ collected = {}
    /\ retval = <<>>
    /\ bpc = [i \in 0..(MaxAttendees - 1) |-> "pending"]
    /\ tpc = [i \in DOMAIN bpc |-> <<>>]
    /\ tres = [i \in DOMAIN bpc |-> <<>>]
    /\ sem = [i \in DOMAIN bpc |-> 0]
    /\ search_results = [i \in DOMAIN bpc |-> <<>>]
    /\ future = [i \in DOMAIN bpc |-> Parsed("array", 0)]
    /\ how = [i \in DOMAIN bpc |-> "none"]
    /\ raised = [i \in DOMAIN bpc |-> {}]
    /\ completed = [i \in DOMAIN bpc |-> <<>>]
    /\ results_lock = "free"
    /\ loop_batch_index = -1
    /\ SharedInit
    /\ ToolIdle
    /\ RepairIdle
    /\ PersonIdle
    /\ MoreIdle


(* ---- helpers over the state ---- *)
Workers_PerBatch == total_batches

(* ThreadPoolExecutor(max_workers=min(self.max_workers, self.total_batches)) *)
Workers == Min(max_workers, total_batches)

Running(i) == bpc[i] \in {"fanout", "kickoff"}

RunningBatches == {i \in Batches : Running(i)}

HoldsPermit(st) == st \in {"sleeping", "entered", "searching"}

Finished(st) == st \in {"done", "failed"}

InFlight(i) == {j \in DOMAIN tpc[i] : tpc[i][j] = "searching"}

EmptyList == Parsed("array", 0)

(* the elements iteration of batch_results yields: the records of a list,  *)
(* the keys of a dict                                                      *)
Elements(i, v) == [k \in 1..v.n |-> [batch |-> i, idx |-> k, tag |-> v.tag]]

Absorb_Overwrite(acc, i, v) == Elements(i, v)

Absorb_InOrderOnly(acc, i, v) ==
    IF acc # <<>> /\ acc[Len(acc)].batch > i THEN acc ELSE acc \o Elements(i, v)

(* self.all_results.extend(batch_results) *)
Absorb(acc, i, v) == acc \o Elements(i, v)

(* ---- PharmaCrew.analyze, orchestrating thread ---- *)

NothingToRun_NoWorkers(n, w, b) == w <= 0

(* analyze returns [] before any submit for a list of n items, w workers   *)
(* and batch size b: `if not self.attendees`, or ThreadPoolExecutor        *)
(* raising ValueError for a pool of min(w, total_batches) <= 0 threads,    *)
(* which the outer except turns into return []                             *)
NothingToRun(n, w, b) == n = 0 \/ Min(w, CeilDiv(n, b)) <= 0

(* analyze up to the creation of the executor.  An empty list returns []   *)
(* at once, before all_results and total_batches are assigned.             *)
AnalyzeBegin ==
    /\ apc = "start"
    /\ IF Len(attendees) = 0
       THEN UNCHANGED <<all_results, total_batches>>
       ELSE /\ all_results' = <<>>
            /\ total_batches' = CeilDiv(Len(attendees), batch_size)
    /\ IF NothingToRun(Len(attendees), max_workers, batch_size)
       THEN apc' = "returned" /\ retval' = <<>>
       ELSE apc' = "submit" /\ UNCHANGED retval
    /\ UNCHANGED <<config, shared, calls, completed, locking, submitted, collected, bpc, tpc, tres, sem,
                   search_results, future, how, raised>>

(* executor.submit(self.process_batch, i) for i in range(total_batches) *)
Submit ==
    /\ apc = "submit"
    /\ submitted < total_batches
    /\ bpc' = [bpc EXCEPT ![submitted] = "queued"]
    /\ submitted' = submitted + 1
    /\ apc' = IF submitted + 1 = total_batches THEN "collect" ELSE "submit"
    /\ UNCHANGED <<config, shared, calls, completed, locking, total_batches, all_results, collected, retval,
                   tpc, tres, sem, search_results, future, how, raised>>

CollectGuard_Twice(i) == bpc[i] = "done"

(* as_completed yields the future of a batch that has ended and has not   *)
(* been yielded before                                                     *)
CollectGuard(i) == bpc[i] = "done" /\ i \notin collected

WithLock_Skipped(thread) == "free"

(* with self.results_lock: the value of the lock inside the block *)
WithLock(thread) == thread

(* one iteration of the as_completed loop up to the with statement:        *)
(* batch_results = future.result(), then results_lock is acquired          *)
TakeResult(i) ==
    /\ apc = "collect"
    /\ CollectGuard(i)
    /\ results_lock = "free"
    /\ results_lock' = WithLock("analyze")
    /\ loop_batch_index' = i
    /\ apc' = "absorb"
    /\ UNCHANGED <<config, shared, calls, completed, total_batches, all_results, submitted,
                   collected, retval, bpc, tpc, tres, sem, search_results,
                   future, how, raised>>

(* the body of the with block, self.all_results.extend(batch_results),     *)
(* and the release of results_lock when the block is left                  *)
Collect(i) ==
    /\ apc = "absorb"
    /\ loop_batch_index = i
    /\ all_results' = Absorb(all_results, i, future[i])
    /\ collected' = collected \cup {i}
    /\ results_lock' = "free"
    /\ loop_batch_index' = -1
    /\ apc' = "collect"
    /\ UNCHANGED <<config, shared, calls, completed, total_batches, submitted, retval, bpc, tpc,
                   tres, sem, search_results, future, how, raised>>

LoopExhausted_StopOnFailure ==
    collected = Batches \/ \E i \in collected : how[i] = "discarded"

(* the loop is exhausted, the with block shuts the executor down           *)
(* (wait=True), save_final_results, return self.all_results                *)
LoopExhausted == collected = Batches

AnalyzeReturn ==
    /\ apc = "collect"
    /\ LoopExhausted
    /\ apc' = "returned"
    /\ retval' = all_results
    /\ UNCHANGED <<config, shared, calls, completed, locking, total_batches, all_results, submitted, collected,
                   bpc, tpc, tres, sem, search_results, future, how, raised>>

(* ---- a worker thread of the pool: process_batch ---- *)

(* a free worker thread takes the oldest queued work item *)
WorkerFree_NoLimit == TRUE

WorkerFree == Cardinality(RunningBatches) < Workers

(* process_batch -> preprocess_attendees -> process_batch_async ->         *)
(* process_attendees up to asyncio.gather: semaphore and one task per item *)
StartBatch(i) ==
    /\ bpc[i] = "queued"
    /\ \A k \in Batches : k < i => bpc[k] # "queued"
    /\ WorkerFree
    /\ bpc' = [bpc EXCEPT ![i] = "fanout"]
    /\ tpc' = [tpc EXCEPT ![i] = [j \in 1..Len(preprocess_attendees(i)) |-> "waiting"]]
    /\ tres' = [tres EXCEPT ![i] = [j \in 1..Len(preprocess_attendees(i)) |-> NoOutcome]]
    /\ sem' = [sem EXCEPT ![i] = max_concurrent_searches]
    /\ UNCHANGED <<config, shared, calls, completed, locking, total_batches, all_results, apc, submitted,
                   collected, retval, search_results, future, how, raised>>

(* ---- item tasks: process_with_semaphore / process_attendee ---- *)

AfterAcquire_NoDelay == "entered"

(* state of a task once it holds a permit: it sleeps rate_limit_delay      *)
(* inside the async with block before it calls process_attendee            *)
AfterAcquire == IF rate_limit_delay > 0 THEN "sleeping" ELSE "entered"

(* the tasks of batch i that hold a permit of its semaphore *)
Held(i) == Cardinality({j \in DOMAIN tpc[i] : HoldsPermit(tpc[i][j])})

RECURSIVE HeldUpTo(_)
HeldUpTo(n) == IF n = 0 THEN 0 ELSE HeldUpTo(n - 1) + Held(n - 1)

PermitFree_OffByOne(i) == sem[i] >= 0

PermitFree_Shared(i) == HeldUpTo(total_batches) < max_concurrent_searches

(* Semaphore.acquire returns at once only while the value is positive *)
PermitFree(i) == sem[i] > 0

(* async with semaphore: waiters are served first come, first served *)
Acquire(i, j) ==
    /\ bpc[i] = "fanout"
    /\ j \in DOMAIN tpc[i]
    /\ tpc[i][j] = "waiting"
    /\ \A k \in DOMAIN tpc[i] : k < j => tpc[i][k] # "waiting"
    /\ PermitFree(i)
    /\ sem' = [sem EXCEPT ![i] = @ - 1]
    /\ tpc' = [tpc EXCEPT ![i][j] = AfterAcquire]
    /\ UNCHANGED <<config, shared, calls, completed, locking, total_batches, all_results, apc, submitted,
                   collected, retval, bpc, tres, search_results, future, how, raised>>

EnterAttendee_NoRelease(i, j, email_is_str) ==
    /\ bpc[i] = "fanout"
    /\ j \in DOMAIN tpc[i]
    /\ tpc[i][j] \in {"sleeping", "entered"}
    /\ IF email_is_str
       THEN /\ tpc' = [tpc EXCEPT ![i][j] = "searching"]
            /\ UNCHANGED sem
       ELSE /\ tpc' = [tpc EXCEPT ![i][j] = "failed"]
            /\ UNCHANGED sem
    /\ UNCHANGED <<config, shared, calls, completed, locking, total_batches, all_results, apc, submitted,
                   collected, retval, bpc, tres, search_results, future, how, raised>>

(* the sleep is over; process_attendee runs up to the call of              *)
(* search_tool.execute_async.  A 'email' value that is not a string (None) *)
(* raises TypeError at '@' in email in the try block and again in the      *)
(* except block, so the task ends with the exception; leaving the async    *)
(* with block releases the permit.                                         *)
EnterAttendee(i, j, email_is_str) ==
    /\ bpc[i] = "fanout"
    /\ j \in DOMAIN tpc[i]
    /\ tpc[i][j] \in {"sleeping", "entered"}
    /\ IF email_is_str
       THEN /\ tpc' = [tpc EXCEPT ![i][j] = "searching"]
            /\ UNCHANGED sem
       ELSE /\ tpc' = [tpc EXCEPT ![i][j] = "failed"]
            /\ sem' = [sem EXCEPT ![i] = @ + 1]
    /\ UNCHANGED <<config, shared, calls, completed, locking, total_batches, all_results, apc, submitted,
                   collected, retval, bpc, tres, search_results, future, how, raised>>

(* search_result of the outcome: the text returned, or "Error: ..." built  *)
(* by the except block when the call raised                                *)
SearchResultOf(r) == IF r = "raise" THEN "error" ELSE "text"

AfterSearch_NoHandler(r) == IF r = "raise" THEN "failed" ELSE "done"

AfterSearch_Retry(r) == IF r = "raise" THEN "sleeping" ELSE "done"

(* state of the task after the call: the except block of process_attendee  *)
(* returns an outcome too, so the task completes either way                *)
AfterSearch(r) == "done"

(* execute_async returns or raises; process_attendee returns the outcome   *)
(* and the permit is released                                              *)
SearchReturn(i, j, r) ==
    /\ bpc[i] = "fanout"
    /\ j \in DOMAIN tpc[i]
    /\ tpc[i][j] = "searching"
    /\ tpc' = [tpc EXCEPT ![i][j] = AfterSearch(r)]
    /\ tres' = [tres EXCEPT ![i][j] = Outcome(preprocess_attendees(i)[j], SearchResultOf(r))]
    /\ sem' = [sem EXCEPT ![i] = @ + 1]
    /\ raised' = [raised EXCEPT ![i] = IF r = "raise" THEN @ \cup {j} ELSE @]
    /\ completed' = [completed EXCEPT ![i] = Append(@, j)]
    /\ UNCHANGED <<config, shared, calls, locking, total_batches, all_results, apc, submitted,
                   collected, retval, bpc, search_results, future, how>>

(* ---- process_batch_async after the fan-out ---- *)

GatherDone_FirstCompleted(i) == \E j \in DOMAIN tpc[i] : tpc[i][j] = "done"

(* asyncio.gather returns when every task has returned *)
GatherDone(i) == \A j \in DOMAIN tpc[i] : tpc[i][j] = "done"

IsError(o) == o.search_result = "error"

GatheredResults_AsCompleted(i) == [p \in DOMAIN completed[i] |-> tres[i][completed[i][p]]]

GatheredResults_DropErrors(i) == SelectSeq(tres[i], LAMBDA o : ~IsError(o))

(* results = await asyncio.gather(...): one value per task, in task order *)
GatheredResults(i) == tres[i]

(* the description formatted with the outcomes of batch i *)
Formatted(i) == "formatted"

SetDescription_NoCopy(shared_description, text) == text

(* task_config = self.tasks_config["analyze_attendees"].copy()             *)
(* task_config["description"] = task_config["description"].format(...):    *)
(* the assignment writes the key of the copy; the value is the description *)
(* self.tasks_config holds afterwards                                      *)
SetDescription(shared_description, text) == shared_description

(* gather returns the list of outcomes in task order and the event loop    *)
(* with its tasks and semaphore is closed; agent, task (from a copy of the *)
(* task configuration) and crew are built (which may raise: the outer      *)
(* except returns []) and crew.kickoff() is called on the outcomes         *)
FanoutReturn(i, prompt_ok) ==
    /\ bpc[i] = "fanout"
    /\ GatherDone(i)
    /\ tpc' = [tpc EXCEPT ![i] = <<>>]
    /\ tres' = [tres EXCEPT ![i] = <<>>]
    /\ sem' = [sem EXCEPT ![i] = 0]
    /\ IF prompt_ok
       THEN /\ bpc' = [bpc EXCEPT ![i] = "kickoff"]
            /\ search_results' = [search_results EXCEPT ![i] = GatheredResults(i)]
            /\ tasks_config' = SetDescription(tasks_config, Formatted(i))
            /\ UNCHANGED <<future, how, raised, completed>>
       ELSE /\ bpc' = [bpc EXCEPT ![i] = "done"]
            /\ future' = [future EXCEPT ![i] = EmptyList]
            /\ how' = [how EXCEPT ![i] = "discarded"]
            /\ raised' = [raised EXCEPT ![i] = {}]
            /\ completed' = [completed EXCEPT ![i] = <<>>]
            /\ UNCHANGED <<search_results, tasks_config>>
    /\ UNCHANGED <<config, _async_clients, calls, locking, total_batches, all_results,
                   apc, submitted, collected, retval>>

GatherRaised_AnyTime(i) == TRUE

(* asyncio.gather raises as soon as one of its tasks has raised *)
GatherRaised(i) == \E j \in DOMAIN tpc[i] : tpc[i][j] = "failed"

(* a task raised: gather raises, process_attendees re-raises, the finally  *)
(* block cancels the tasks still pending and closes the loop, the outer    *)
(* except returns []                                                       *)
FanoutRaise(i) ==
    /\ bpc[i] = "fanout"
    /\ GatherRaised(i)
    /\ tpc' = [tpc EXCEPT ![i] = <<>>]
    /\ tres' = [tres EXCEPT ![i] = <<>>]
    /\ sem' = [sem EXCEPT ![i] = 0]
    /\ bpc' = [bpc EXCEPT ![i] = "done"]
    /\ future' = [future EXCEPT ![i] = EmptyList]
    /\ how' = [how EXCEPT ![i] = "discarded"]
    /\ raised' = [raised EXCEPT ![i] = {}]
    /\ completed' = [completed EXCEPT ![i] = <<>>]
    /\ UNCHANGED <<config, shared, calls, locking, total_batches, all_results, apc, submitted,
                   collected, retval, search_results>>

StrictParse_NoMock(k) == k.strict

(* the text handed to the repair: '[]' for the telemetry error *)
StrictParse(k) == IF k.kind = "telemetry_error" THEN EmptyList ELSE k.strict

(* len(batch_results) in the success message raises TypeError for a scalar *)
HasLen(v) == v.tag \in {"array", "object", "string"}

(* the return statement the batch reaches after crew.kickoff():           *)
(*   "parsed"      return batch_results of the strict parse               *)
(*   "recovered"   return batch_results of the parse after the filter     *)
(*   "skipped"     return [] of the inner bare except                     *)
(*   "except"      return [] of the outer except Exception                *)
ReturnPath(k) ==
    IF k.kind = "other_error" THEN "except"
    ELSE IF StrictParse(k).tag # "fail"
         THEN (IF HasLen(StrictParse(k)) THEN "parsed" ELSE "except")
         ELSE (IF HasLen(k.filtered) THEN "recovered" ELSE "skipped")

(* whether the batch ends with records of a parse or is discarded *)
BatchHow(k) == IF ReturnPath(k) \in {"parsed", "recovered"} THEN "ok" ELSE "discarded"

BatchReturn_Salvage(k) ==
    CASE ReturnPath(k) = "parsed" -> StrictParse(k)
      [] ReturnPath(k) = "recovered" -> k.filtered
      [] ReturnPath(k) = "skipped" -> Parsed("array", 1)
      [] OTHER -> EmptyList

(* the value process_batch_async returns after crew.kickoff() *)
BatchReturn(k) ==
    CASE ReturnPath(k) = "parsed" -> StrictParse(k)
      [] ReturnPath(k) = "recovered" -> k.filtered
      [] OTHER -> EmptyList

(* crew.kickoff() returns or raises; the response is repaired and the      *)
(* batch returns                                                           *)
KickoffReturn(i, k) ==
    /\ bpc[i] = "kickoff"
    /\ bpc' = [bpc EXCEPT ![i] = "done"]
    /\ future' = [future EXCEPT ![i] = BatchReturn(k)]
    /\ how' = [how EXCEPT ![i] = BatchHow(k)]
    /\ search_results' = [search_results EXCEPT ![i] = <<>>]
    /\ raised' = [raised EXCEPT ![i] = {}]
    /\ completed' = [completed EXCEPT ![i] = <<>>]
    /\ UNCHANGED <<config, shared, calls, locking, total_batches, all_results, apc, submitted,
                   collected, retval, tpc, tres, sem>>

Next ==
    \/ AnalyzeBegin
    \/ Submit
    \/ \E i \in Batches : StartBatch(i)
    \/ \E i \in Batches : \E j \in 1..MaxBatchSize : Acquire(i, j)
    \/ \E i \in Batches : \E j \in 1..MaxBatchSize : \E s \in BOOLEAN : EnterAttendee(i, j, s)
    \/ \E i \in Batches : \E j \in 1..MaxBatchSize : \E r \in SearchOutcomes : SearchReturn(i, j, r)
    \/ \E i \in Batches : \E ok \in BOOLEAN : FanoutReturn(i, ok)
    \/ \E i \in Batches : FanoutRaise(i)
    \/ \E i \in Batches : \E k \in KickoffOutcomes : KickoffReturn(i, k)
    \/ \E i \in Batches : TakeResult(i)
    \/ \E i \in Batches : Collect(i)
    \/ AnalyzeReturn

Spec == Init /\ [][Next]_vars


(***************************************************************************)
(* AsyncWebSearchTool.execute_async, one call                              *)
(*   (src/conference/src/conference/tools/async_web_search_tool.py)        *)
(*                                                                         *)
(* A dict is a sequence of key/value entries in insertion order with       *)
(* distinct keys; a value is one of two strings or something that is not   *)
(* a string.  A str argument is described by what json.loads does with it: *)
(* it returns a dict, returns another value, raises JSONDecodeError, or    *)
(* raises another error (RecursionError for nesting deeper than the        *)
(* recursion limit, ValueError for an integer literal longer than the      *)
(* interpreter's digit limit).  Writing to the console is taken to         *)
(* succeed.                                                                *)
(***************************************************************************)
Keys == {"query", "description", "x", "y"}

Values == {"str_a", "str_b", "nonstr"}

isinstance_str(v) == v # "nonstr"

Dicts ==
    UNION {{d \in [1..n -> [k : Keys, v : Values]] :
               \A p, q \in 1..n : p # q => d[p].k # d[q].k} : n \in 0..MaxKeys}

LoadsOutcomes == {"value", "JSONDecodeError", "error"}

InputData(type, d, loads) == [type |-> type, d |-> d, loads |-> loads]

Inputs ==
    {InputData("dict", d, "none") : d \in Dicts}
    \cup {InputData("str", d, "dict") : d \in Dicts}
    \cup {InputData("str", <<>>, l) : l \in LoadsOutcomes}
    \cup {InputData("other", <<>>, "none")}

(* what the call of the remote model does inside _run_async: content,      *)
(* empty content, no choices, or an exception of the client                *)
RemoteOutcomes == {"content", "no_content", "no_choices", "error"}

HasKey(d, key) == \E p \in DOMAIN d : d[p].k = key

Get(d, key) == d[CHOOSE p \in DOMAIN d : d[p].k = key].v

(* for value in d.values(): if isinstance(value, str): query = value; break *)
StrEntries(d) == {p \in DOMAIN d : isinstance_str(d[p].v)}

FirstStr(d) == d[CHOOSE p \in StrEntries(d) : \A q \in StrEntries(d) : p <= q].v

(* the query execute_async takes from a dict, "" when the for loop ends    *)
(* without break                                                           *)
FindQuery(d) ==
    IF HasKey(d, "query") THEN Get(d, "query")
    ELSE IF HasKey(d, "description") THEN Get(d, "description")
    ELSE IF StrEntries(d) # {} THEN FirstStr(d)
    ELSE ""

HasQuery(d) ==
    HasKey(d, "query") \/ HasKey(d, "description") \/ StrEntries(d) # {}

ToolInit ==
    /\ attendees = <<>>
    /\ batch_size = 1
    /\ max_workers = 1
    /\ max_concurrent_searches = 1
    /\ total_batches = 0
    /\ all_results = <<>>
    /\ apc = "start"
    /\ submitted = 0
    /\ collected = {}
    /\ retval = <<>>
    /\ bpc = [i \in 0..(MaxAttendees - 1) |-> "pending"]
    /\ tpc = [i \in DOMAIN bpc |-> <<>>]
    /\ tres = [i \in DOMAIN bpc |-> <<>>]
    /\ sem = [i \in DOMAIN bpc |-> 0]
    /\ search_results = [i \in DOMAIN bpc |-> <<>>]
    /\ future = [i \in DOMAIN bpc |-> Parsed("array", 0)]
    /\ how = [i \in DOMAIN bpc |-> "none"]
    /\ raised = [i \in DOMAIN bpc |-> {}]
    /\ completed = [i \in DOMAIN bpc |-> <<>>]
    /\ results_lock = "free"
    /\ loop_batch_index = -1
    /\ SharedInit
    /\ ToolIdle
    /\ RepairIdle
    /\ PersonIdle
    /\ MoreIdle

engine == <<config, shared, locking, completed, total_batches, all_results, apc, submitted,
            collected, retval, bpc, tpc, tres, sem, search_results, future,
            how, raised>>

(* execute_async(input_data) is called *)
ExecuteAsync(inp) ==
    /\ xpc = "idle"
    /\ input_data' = inp
    /\ xpc' = "called"
    /\ UNCHANGED <<engine, more, repair, person, query, xret>>

(* the value execute_async returns without calling _run_async, "" if it    *)
(* goes on to the call                                                     *)
EarlyReturn(inp) ==
    CASE inp.type = "dict" /\ ~HasQuery(inp.d) ->
             "Error: No valid query found in the input"
      [] inp.type = "str" /\ inp.loads = "dict" /\ ~HasQuery(inp.d) ->
             "Error: No valid query found in the JSON"
      [] inp.type = "other" -> "Error: Invalid input type"
      [] OTHER -> ""

(* json.loads raised an error the except clause does not name *)
Escapes(inp) == inp.type = "str" /\ inp.loads = "error"

(* the query of the call of _run_async: taken from the dict, or the str    *)
(* argument itself                                                         *)
QueryOf(inp) ==
    IF inp.type = "dict" \/ (inp.type = "str" /\ inp.loads = "dict")
    THEN FindQuery(inp.d)
    ELSE "input_data"

(* the body of execute_async up to the return statement it reaches *)
HandleInput ==
    /\ xpc = "called"
    /\ IF Escapes(input_data)
       THEN xpc' = "raised" /\ UNCHANGED <<query, xret>>
       ELSE IF EarlyReturn(input_data) # ""
       THEN xpc' = "returned" /\ xret' = EarlyReturn(input_data) /\ UNCHANGED query
       ELSE xpc' = "run" /\ query' = QueryOf(input_data) /\ UNCHANGED xret
    /\ UNCHANGED <<engine, more, repair, person, input_data>>

(* the text _run_async returns *)
RunResult(r) ==
    CASE r = "content" -> "content"
      [] r \in {"no_content", "no_choices"} -> "No results found for query"
      [] r = "error" -> "Error performing web search"

(* return await self._run_async(query) *)
RunAsync(r) ==
    /\ xpc = "run"
    /\ xret' = RunResult(r)
    /\ xpc' = "returned"
    /\ UNCHANGED <<engine, more, repair, person, input_data, query>>

ToolNext ==
    \/ \E inp \in Inputs : ExecuteAsync(inp)
    \/ HandleInput
    \/ \E r \in RemoteOutcomes : RunAsync(r)

ToolSpec == ToolInit /\ [][ToolNext]_vars


(***************************************************************************)
(* Repair of a response: clean_json_text, json.loads and the character     *)
(* filter of process_batch_async (the same lines stand in                  *)
(* process_batch_with_crew)                                                *)
(*   (src/conference/src/conference/crews/pharma_crew/pharma_crew.py)      *)
(*                                                                         *)
(* A text is a sequence of tokens.  A token is one character or one of the *)
(* words the patterns of clean_json_text name: the word json, the word or, *)
(* and the quoted options of the two enumerations.  No other token holds a *)
(* letter of these words, so a pattern matches the tokens where it matches *)
(* the characters of the text they spell.                                  *)
(***************************************************************************)

(* characters matched by \s, removed by str.strip() *)
Whitespace == {" ", "\n"}

(* the token of the backtick character *)
Tick == "<tick>"

Fence == <<Tick, Tick, Tick>>

(* the quoted options of the two re.sub calls of lines 37 and 38 *)
Options1 == <<"\"Pharmaceutical\"", "\"Healthcare\"", "\"Other\"">>
Options2 == <<"\"Pharma\"", "\"Oncology\"", "\"Women's Health\"",
              "\"Organ Studies\"", "\"Not a Lead\"">>

Range(f) == {f[x] : x \in DOMAIN f}

(* the pattern pat stands in text t at position p *)
StartsWith(t, p, pat) ==
    /\ p + Len(pat) - 1 <= Len(t)
    /\ SubSeq(t, p, p + Len(pat) - 1) = pat

(* \s* from position p: the position after the run of whitespace *)
RECURSIVE SkipSpace(_, _)
SkipSpace(t, p) ==
    IF p <= Len(t) /\ t[p] \in Whitespace THEN SkipSpace(t, p + 1) ELSE p

(* re.sub of line 30: three backticks, an optional json, then \s*; from   *)
(* position p on                                                           *)
RECURSIVE StripOpen(_, _)
StripOpen(t, p) ==
    IF p > Len(t) THEN <<>>
    ELSE IF StartsWith(t, p, Fence)
    THEN LET q == IF StartsWith(t, p + 3, <<"json">>) THEN p + 4 ELSE p + 3
         IN  StripOpen(t, SkipSpace(t, q))
    ELSE <<t[p]>> \o StripOpen(t, p + 1)

(* re.sub of line 31: \s* then three backticks; from position p on *)
RECURSIVE StripClose(_, _)
StripClose(t, p) ==
    IF p > Len(t) THEN <<>>
    ELSE IF StartsWith(t, SkipSpace(t, p), Fence)
    THEN StripClose(t, SkipSpace(t, p) + 3)
    ELSE <<t[p]>> \o StripClose(t, p + 1)

(* text.strip() *)
RECURSIVE RStrip(_)
RStrip(t) ==
    IF Len(t) > 0 /\ t[Len(t)] \in Whitespace THEN RStrip(SubSeq(t, 1, Len(t) - 1)) ELSE t

strip(t) == RStrip(SubSeq(t, SkipSpace(t, 1), Len(t)))

(* the pattern opts[k] \s+ or \s+ opts[k+1] ... matched at position p:    *)
(* the position after the match, 0 if there is none                        *)
RECURSIVE MatchOptions(_, _, _, _)
MatchOptions(t, p, opts, k) ==
    IF p > Len(t) \/ t[p] # opts[k] THEN 0
    ELSE IF k = Len(opts) THEN p + 1
    ELSE LET o == SkipSpace(t, p + 1)
             n == SkipSpace(t, o + 1)
         IN  IF o > p + 1 /\ o <= Len(t) /\ t[o] = "or" /\ n > o + 1
             THEN MatchOptions(t, n, opts, k + 1)
             ELSE 0

CollapseTo_Last(opts) == opts[Len(opts)]

(* the replacement text of the two re.sub calls: the first option *)
CollapseTo(opts) == opts[1]

(* re.sub(<enumeration of opts>, <first option>, text), from position p on *)
RECURSIVE SubOptions(_, _, _)
SubOptions(t, p, opts) ==
    IF p > Len(t) THEN <<>>
    ELSE IF MatchOptions(t, p, opts, 1) > 0
    THEN <<CollapseTo(opts)>> \o SubOptions(t, MatchOptions(t, p, opts, 1), opts)
    ELSE <<t[p]>> \o SubOptions(t, p + 1, opts)

(* lines 29-34 of clean_json_text: the fence markers and the surrounding   *)
(* whitespace are removed                                                  *)
StripFences_NoStrip(t) == StripClose(StripOpen(t, 1), 1)

StripFences_Leading(t) ==
    strip(IF StartsWith(t, 1, Fence) THEN SubSeq(t, Len(Fence) + 1, Len(t)) ELSE t)

StripFences(t) == strip(StripClose(StripOpen(t, 1), 1))

(* lines 36-38 of clean_json_text *)
NormaliseEnums(t) == SubOptions(SubOptions(t, 1, Options1), 1, Options2)

clean_json_text(text) == NormaliseEnums(StripFences(text))


(* ---- json.loads ---- *)
(* A JSON value is a record of a tag and a sequence v: the elements of an  *)
(* array, the key/value pairs of an object in insertion order, the         *)
(* characters of a string, the characters of a number.  The text has no    *)
(* letter that could spell true, false, null, NaN or Infinity.             *)
Value(tag, v) == [tag |-> tag, v |-> v]

(* json.loads raised json.JSONDecodeError *)
JSONDecodeError == Value("fail", <<>>)

QuotedWords == Range(Options1) \cup Range(Options2) \cup {"\"Womens Health\""}

(* the characters between the quotes of a quoted word *)
Inner(q) ==
    CASE q = "\"Pharmaceutical\"" -> "Pharmaceutical"
      [] q = "\"Healthcare\"" -> "Healthcare"
      [] q = "\"Other\"" -> "Other"
      [] q = "\"Pharma\"" -> "Pharma"
      [] q = "\"Oncology\"" -> "Oncology"
      [] q = "\"Women's Health\"" -> "Women's Health"
      [] q = "\"Organ Studies\"" -> "Organ Studies"
      [] q = "\"Not a Lead\"" -> "Not a Lead"
      [] q = "\"Womens Health\"" -> "Womens Health"

(* result of a parsing step: a value and the position after it *)
At(val, next) == [tag |-> val.tag, v |-> val.v, next |-> next]
NoParse == At(JSONDecodeError, 0)

(* py_scanstring after the opening quote: acc holds the characters read.   *)
(* A quoted word closes the string with its first character and leaves its *)
(* letters behind the value, which no context accepts; after a backslash   *)
(* its first character is an escaped quote and its last closes the string. *)
(* A newline inside a string is a control character (strict mode).         *)
RECURSIVE ScanString(_, _, _)
ScanString(t, q, acc) ==
    IF q > Len(t) THEN NoParse
    ELSE IF t[q] = "\"" THEN At(Value("string", acc), q + 1)
    ELSE IF t[q] \in QuotedWords \/ t[q] = "\n" THEN NoParse
    ELSE IF t[q] = "\\"
    THEN IF q + 1 > Len(t) THEN NoParse
         ELSE IF t[q + 1] \in {"\"", "\\"} THEN ScanString(t, q + 2, Append(acc, t[q + 1]))
         ELSE IF t[q + 1] \in QuotedWords
         THEN At(Value("string", acc \o <<"\"", Inner(t[q + 1])>>), q + 2)
         ELSE NoParse
    ELSE ScanString(t, q + 1, Append(acc, t[q]))

StartsString(t, p) == p <= Len(t) /\ (t[p] = "\"" \/ t[p] \in QuotedWords)

ParseString(t, p) ==
    IF t[p] \in QuotedWords THEN At(Value("string", <<Inner(t[p])>>), p + 1)
    ELSE ScanString(t, p + 1, <<>>)

(* the position after the run of digits from p *)
RECURSIVE SkipDigits(_, _)
SkipDigits(t, p) == IF p <= Len(t) /\ t[p] = "1" THEN SkipDigits(t, p + 1) ELSE p

(* NUMBER_RE: an optional minus, digits, an optional fraction *)
ParseNumber(t, p) ==
    LET i == IF t[p] = "-" THEN p + 1 ELSE p
        e == SkipDigits(t, i)
        f == IF e + 1 <= Len(t) /\ t[e] = "." /\ t[e + 1] = "1"
             THEN SkipDigits(t, e + 1) ELSE e
    IN  IF e = i THEN NoParse ELSE At(Value("number", SubSeq(t, p, f - 1)), f)

(* dict(pairs): a later pair of the same key replaces the value *)
Put(pairs, k, val) ==
    IF \E x \in DOMAIN pairs : pairs[x].k = k
    THEN [x \in DOMAIN pairs |-> IF pairs[x].k = k THEN [k |-> k, val |-> val] ELSE pairs[x]]
    ELSE Append(pairs, [k |-> k, val |-> val])

RECURSIVE ParseValue(_, _), ParseElements(_, _, _), ParsePairs(_, _, _)

(* scan_once *)
ParseValue(t, p) ==
    IF p > Len(t) THEN NoParse
    ELSE IF StartsString(t, p) THEN ParseString(t, p)
    ELSE IF t[p] = "[" 
    THEN IF SkipSpace(t, p + 1) <= Len(t) /\ t[SkipSpace(t, p + 1)] = "]"
         THEN At(Value("array", <<>>), SkipSpace(t, p + 1) + 1)
         ELSE ParseElements(t, SkipSpace(t, p + 1), <<>>)
    ELSE IF t[p] = "{"
    THEN IF SkipSpace(t, p + 1) <= Len(t) /\ t[SkipSpace(t, p + 1)] = "}"
         THEN At(Value("object", <<>>), SkipSpace(t, p + 1) + 1)
         ELSE ParsePairs(t, SkipSpace(t, p + 1), <<>>)
    ELSE IF t[p] \in {"-", "1"} THEN ParseNumber(t, p)
    ELSE NoParse

(* JSONArray: the elements from position p, acc holds those read *)
ParseElements(t, p, acc) ==
    LET r == ParseValue(t, p)
        q == SkipSpace(t, r.next)
    IN  IF r.tag = "fail" \/ q > Len(t) THEN NoParse
        ELSE IF t[q] = "]" THEN At(Value("array", Append(acc, Value(r.tag, r.v))), q + 1)
        ELSE IF t[q] = ","
        THEN ParseElements(t, SkipSpace(t, q + 1), Append(acc, Value(r.tag, r.v)))
        ELSE NoParse

(* JSONObject: the pairs from position p, acc holds those read *)
ParsePairs(t, p, acc) ==
    IF ~StartsString(t, p) THEN NoParse
    ELSE LET k == ParseString(t, p)
             c == SkipSpace(t, k.next)
             r == ParseValue(t, SkipSpace(t, c + 1))
             q == SkipSpace(t, r.next)
             pairs == Put(acc, k.v, Value(r.tag, r.v))
         IN  IF k.tag = "fail" \/ c > Len(t) \/ t[c] # ":" THEN NoParse
             ELSE IF r.tag = "fail" \/ q > Len(t) THEN NoParse
             ELSE IF t[q] = "}" THEN At(Value("object", pairs), q + 1)
             ELSE IF t[q] = "," THEN ParsePairs(t, SkipSpace(t, q + 1), pairs)
             ELSE NoParse

(* json.loads(text): one value with whitespace around it and nothing else *)
json_loads(t) ==
    LET r == ParseValue(t, SkipSpace(t, 1))
    IN  IF r.tag # "fail" /\ SkipSpace(t, r.next) = Len(t) + 1
        THEN Value(r.tag, r.v)
        ELSE JSONDecodeError


(* ---- the character filter of line 358 ---- *)
(* the token of a letter outside a-z and A-Z *)
EAcute == "<e-acute>"

FilterClass_KeepDot == {"[", "]", "{", "}", "\"", ",", ":", "a", "1", "_", "-", " ", "\n", "."}

(* the characters of the alphabet that the class                           *)
(* [\[\]\{\}",:a-zA-Z0-9_\-\s] holds; it does not hold '.', the            *)
(* apostrophe, the backslash, the backtick and the letter outside a-zA-Z   *)
FilterClass == {"[", "]", "{", "}", "\"", ",", ":", "a", "1", "_", "-", " ", "\n"}

(* what the filter leaves of one token: a word made of letters, quotes and *)
(* spaces stays, "Women's Health" loses its apostrophe                     *)
FilterToken(c) ==
    IF c = "\"Women's Health\"" THEN <<"\"Womens Health\"">>
    ELSE IF c \in {"json", "or"} \cup QuotedWords THEN <<c>>
    ELSE IF c \in FilterClass THEN <<c>>
    ELSE <<>>

(* re.sub(r'[^...]', '', cleaned_text), from position p on *)
RECURSIVE FilterFrom(_, _)
FilterFrom(t, p) ==
    IF p > Len(t) THEN <<>> ELSE FilterToken(t[p]) \o FilterFrom(t, p + 1)

AggressiveFilter(t) == FilterFrom(t, 1)

(* ---- the responses of the model ---- *)
(* the text of a value as json.dumps writes it on one line *)
RECURSIVE Escaped(_, _)
Escaped(chars, p) ==
    IF p > Len(chars) THEN <<>>
    ELSE (IF chars[p] \in {"\"", "\\"} THEN <<"\\", chars[p]>> ELSE <<chars[p]>>)
         \o Escaped(chars, p + 1)

(* the texts of seq joined by ', ' *)
RECURSIVE Join(_, _)
Join(seq, p) ==
    IF p > Len(seq) THEN <<>>
    ELSE IF p = Len(seq) THEN seq[p]
    ELSE seq[p] \o <<",", " ">> \o Join(seq, p + 1)

Quoted(chars) == <<"\"">> \o Escaped(chars, 1) \o <<"\"">>

RECURSIVE Encode(_)
Encode(val) ==
    CASE val.tag = "array" ->
             <<"[">> \o Join([x \in DOMAIN val.v |-> Encode(val.v[x])], 1) \o <<"]">>
      [] val.tag = "object" ->
             <<"{">> \o Join([x \in DOMAIN val.v |->
                                Quoted(val.v[x].k) \o <<":", " ">> \o Encode(val.v[x].val)], 1)
             \o <<"}">>
      [] val.tag = "string" -> Quoted(val.v)
      [] OTHER -> val.v

Number1 == Value("number", <<"1">>)

(* a record of one field *)
Record(k, val) == Value("object", <<[k |-> k, val |-> val]>>)

(* the elements of the arrays of the model: a number, strings (one with a  *)
(* dot, one with a fence in it), a record                                  *)
Atoms ==
    {Number1, Value("string", <<"a">>), Value("string", <<"a", ".", EAcute>>),
     Value("string", Fence), Record(<<"a">>, Number1)}

Arrays == {Value("array", els) : els \in UNION {[1..n -> Atoms] : n \in 0..MaxElements}}

(* an enumeration left in the text, with the whitespace of the response *)
Enumeration1 ==
    <<"\"Pharmaceutical\"", " ", "or", " ", "\"Healthcare\"", "\n", " ", "or", " ", "\"Other\"">>
Enumeration2 ==
    <<"\"Pharma\"", " ", "or", " ", "\"Oncology\"", " ", "or", " ", "\"Women's Health\"",
      " ", "or", " ", "\"Organ Studies\"", " ", "or", " ", "\"Not a Lead\"">>

(* an enumeration whose last option is followed by further alternatives,   *)
(* so that the text left by one substitution begins a new enumeration      *)
Chained1 ==
    Enumeration1 \o <<" ", "or", " ", "\"Healthcare\"", " ", "or", " ", "\"Other\"">>

(* the texts of the elements: well-formed ones and damaged ones *)
ElementTexts ==
    {Encode(a) : a \in Atoms}
    \cup {<<"{", "\"", "a", "\"", ":", " ">> \o Enumeration1 \o <<"}">>,
          Enumeration2,
          <<"\"Women's Health\"">>,
          <<"1", ".">>, <<"'", "a", "'">>, <<"\"", "\\", "\"", "\"">>}

Bodies ==
    {<<"[">> \o Join(els, 1) \o <<"]">> :
        els \in UNION {[1..n -> ElementTexts] : n \in 0..MaxElements}}
    \cup ElementTexts
    \cup {Chained1}

(* what the response holds before and after the body *)
Prefixes ==
    {<<>>, Fence \o <<"json", "\n">>, Fence \o <<"\n">>, <<"a", ":", "\n">> \o Fence \o <<"json", "\n">>}
Suffixes == {<<>>, <<"\n">> \o Fence, <<"\n">> \o Fence \o <<"\n">>, <<".">>}

(* result.raw *)
RawTexts == {pre \o body \o suf : pre \in Prefixes, body \in Bodies, suf \in Suffixes}


(* ---- the steps of the repair (lines 346-364) ---- *)
(* no run of analyze is being followed *)
EngineIdle ==
    /\ attendees = <<>>
    /\ batch_size = 1
    /\ max_workers = 1
    /\ max_concurrent_searches = 1
    /\ total_batches = 0
    /\ all_results = <<>>
    /\ apc = "start"
    /\ submitted = 0
    /\ collected = {}
    /\ retval = <<>>
    /\ bpc = [i \in 0..(MaxAttendees - 1) |-> "pending"]
    /\ tpc = [i \in DOMAIN bpc |-> <<>>]
    /\ tres = [i \in DOMAIN bpc |-> <<>>]
    /\ sem = [i \in DOMAIN bpc |-> 0]
    /\ search_results = [i \in DOMAIN bpc |-> <<>>]
    /\ future = [i \in DOMAIN bpc |-> Parsed("array", 0)]
    /\ how = [i \in DOMAIN bpc |-> "none"]
    /\ raised = [i \in DOMAIN bpc |-> {}]
    /\ completed = [i \in DOMAIN bpc |-> <<>>]
    /\ results_lock = "free"
    /\ loop_batch_index = -1
    /\ SharedInit

RepairInit == EngineIdle /\ ToolIdle /\ RepairIdle /\ PersonIdle /\ MoreIdle

EmptyArray == Value("array", <<>>)

(* result = crew.kickoff() has returned a result whose raw text is text *)
Kickoff(text) ==
    /\ rpc = "idle"
    /\ raw' = text
    /\ rpc' = "kickoff"
    /\ UNCHANGED <<engine, more, tool, person, cleaned_text, batch_results>>

(* cleaned_text = clean_json_text(result.raw) *)
CleanResponse ==
    /\ rpc = "kickoff"
    /\ cleaned_text' = clean_json_text(raw)
    /\ rpc' = "cleaned"
    /\ UNCHANGED <<engine, more, tool, person, raw, batch_results>>

NeedsFilter_Always(val) == TRUE

(* the except json.JSONDecodeError clause of line 354 is entered *)
NeedsFilter(val) == val.tag = "fail"

(* batch_results = json.loads(cleaned_text) of line 351: JSONDecodeError   *)
(* is caught, or the value is returned, or len() of a number raises        *)
(* TypeError and the except clause of line 366 returns []                  *)
StrictLoads ==
    /\ rpc = "cleaned"
    /\ LET val == json_loads(cleaned_text)
       IN  IF NeedsFilter(val)
           THEN rpc' = "JSONDecodeError" /\ UNCHANGED batch_results
           ELSE IF HasLen(val)
           THEN rpc' = "parsed" /\ batch_results' = val
           ELSE rpc' = "except" /\ batch_results' = EmptyArray
    /\ UNCHANGED <<engine, more, tool, person, raw, cleaned_text>>

(* cleaned_text = re.sub(..., '', cleaned_text) of line 358 *)
ApplyFilter ==
    /\ rpc = "JSONDecodeError"
    /\ cleaned_text' = AggressiveFilter(cleaned_text)
    /\ rpc' = "filtered"
    /\ UNCHANGED <<engine, more, tool, person, raw, batch_results>>

(* batch_results = json.loads(cleaned_text) of line 359: the value is      *)
(* returned, or the bare except of line 362 returns []                     *)
SecondLoads ==
    /\ rpc = "filtered"
    /\ LET val == json_loads(cleaned_text)
       IN  IF val.tag # "fail" /\ HasLen(val)
           THEN rpc' = "recovered" /\ batch_results' = val
           ELSE rpc' = "skipped" /\ batch_results' = EmptyArray
    /\ UNCHANGED <<engine, more, tool, person, raw, cleaned_text>>

RepairNext ==
    \/ \E text \in RawTexts : Kickoff(text)
    \/ CleanResponse
    \/ StrictLoads
    \/ ApplyFilter
    \/ SecondLoads

RepairSpec == RepairInit /\ [][RepairNext]_vars


(***************************************************************************)
(* AsyncAttendeeProcessor.process_attendee, one call                       *)
(*   (.../crews/pharma_crew/async_attendee_processor.py)                   *)
(* and extract_company_from_email, one call                                *)
(*   (src/conference/src/conference/utils.py)                              *)
(*                                                                         *)
(* A string is a sequence of characters.  A name is made of a letter and   *)
(* spaces, an email of a letter, '@' and '.'; the value of 'email' may     *)
(* also be None.                                                           *)
(***************************************************************************)
Names == {<<>>, <<" ">>, <<"A">>}
Organizations == {<<>>, <<"O">>}
EmailTexts == UNION {[1..n -> {"x", "@", "."}] : n \in 0..MaxEmail}
Emails == {Str(e) : e \in EmailTexts} \cup {None}

Attendees ==
    [first_name : Names, last_name : Names, organization : Organizations, email : Emails]

(* the literals "Unknown" and "unknown.com" *)
Unknown == <<"Unknown">>
UnknownCom == <<"unknown.com">>

(* '@' in email *)
HasAt(e) == \E p \in DOMAIN e : e[p] = "@"

(* email.split('@')[-1]: the text after the last '@' *)
SplitLast(e) ==
    IF HasAt(e)
    THEN SubSeq(e, 1 + CHOOSE p \in DOMAIN e : e[p] = "@" /\ \A q \in DOMAIN e : e[q] = "@" => q <= p,
                Len(e))
    ELSE e

(* x or y of two strings *)
Or(x, y) == IF x = <<>> THEN y ELSE x

(* lines 57-59 *)
PersonName(att) == Or(strip(att.first_name \o <<" ">> \o att.last_name), Unknown)

HandlerPersonName_NoFallback(att) == strip(att.first_name \o <<" ">> \o att.last_name)

(* line 109 *)
HandlerPersonName(att) == Or(strip(att.first_name \o <<" ">> \o att.last_name), Unknown)

CompanyDomain_Label(e) ==
    IF HasAt(e) /\ \E d \in DOMAIN SplitLast(e) : SplitLast(e)[d] = "."
    THEN SubSeq(SplitLast(e), 1,
                (CHOOSE d \in DOMAIN SplitLast(e) :
                    SplitLast(e)[d] = "." /\ \A c \in 1..(d - 1) : SplitLast(e)[c] # ".") - 1)
    ELSE IF HasAt(e) THEN SplitLast(e) ELSE <<>>

(* line 62: company_domain *)
CompanyDomain(e) == IF HasAt(e) THEN SplitLast(e) ELSE <<>>

(* lines 94-100: the dict returned after the search *)
SuccessResult(att) ==
    [person_name |-> PersonName(att),
     organization |-> Or(att.organization, Unknown),
     email |-> att.email.s,
     company_domain |-> Or(CompanyDomain(att.email.s), UnknownCom),
     search_result |-> "text"]

(* lines 108-114: the dict returned by the except clause *)
HandlerResult(att) ==
    [person_name |-> HandlerPersonName(att),
     organization |-> Or(att.organization, Unknown),
     email |-> att.email.s,
     company_domain |-> IF HasAt(att.email.s) THEN SplitLast(att.email.s) ELSE UnknownCom,
     search_result |-> "Error"]

PersonInit == EngineIdle /\ ToolIdle /\ RepairIdle /\ PersonIdle /\ MoreIdle

(* process_attendee(attendee) is called *)
ProcessAttendee(att) ==
    /\ ppc = "idle"
    /\ attendee' = att
    /\ ppc' = "called"
    /\ UNCHANGED <<engine, more, tool, repair, result, email, company>>

(* the call ends; r is what execute_async does if it is reached.  With an  *)
(* 'email' that is not a string, '@' in email raises TypeError at line 62  *)
(* and again in the except clause at line 112, and the call raises.        *)
ProcessAttendeeEnd(r) ==
    /\ ppc = "called"
    /\ IF attendee.email.type # "str"
       THEN ppc' = "raised" /\ UNCHANGED result
       ELSE /\ ppc' = "returned"
            /\ result' = IF r = "raise" THEN HandlerResult(attendee) ELSE SuccessResult(attendee)
    /\ UNCHANGED <<engine, more, tool, repair, attendee, email, company>>

(* the position after the run of characters other than '.' from p *)
RECURSIVE SkipNonDots(_, _)
SkipNonDots(e, p) == IF p <= Len(e) /\ e[p] # "." THEN SkipNonDots(e, p + 1) ELSE p

(* the pattern @([^.]+)\. matched at position p: the position of the '.',  *)
(* 0 if there is no match                                                  *)
MatchCompany(e, p) ==
    IF e[p] = "@" /\ SkipNonDots(e, p + 1) > p + 1 /\ SkipNonDots(e, p + 1) <= Len(e)
    THEN SkipNonDots(e, p + 1) ELSE 0

Group1_WithAt(e, p) == SubSeq(e, p, MatchCompany(e, p) - 1)

(* match.group(1) of the match at position p *)
Group1(e, p) == SubSeq(e, p + 1, MatchCompany(e, p) - 1)

(* re.search: the leftmost match from position p on *)
RECURSIVE SearchCompany(_, _)
SearchCompany(e, p) ==
    IF p > Len(e) THEN None
    ELSE IF MatchCompany(e, p) > 0 THEN Str(Group1(e, p))
    ELSE SearchCompany(e, p + 1)

(* utils.extract_company_from_email *)
extract_company_from_email(em) ==
    IF em.type = "None" \/ em.s = <<>> \/ ~HasAt(em.s) THEN None
    ELSE SearchCompany(em.s, 1)

(* extract_company_from_email(email) is called *)
ExtractCompany(em) ==
    /\ ppc = "idle"
    /\ email' = em
    /\ ppc' = "extract"
    /\ UNCHANGED <<engine, more, tool, repair, attendee, result, company>>

ExtractCompanyEnd ==
    /\ ppc = "extract"
    /\ company' = extract_company_from_email(email)
    /\ ppc' = "extracted"
    /\ UNCHANGED <<engine, more, tool, repair, attendee, result, email>>

PersonNext ==
    \/ \E att \in Attendees : ProcessAttendee(att)
    \/ \E r \in SearchOutcomes : ProcessAttendeeEnd(r)
    \/ \E em \in Emails : ExtractCompany(em)
    \/ ExtractCompanyEnd

PersonSpec == PersonInit /\ [][PersonNext]_vars


(***************************************************************************)
(* PharmaCrew.process_batch in its two modes, one batch                    *)
(*   (src/conference/src/conference/crews/pharma_crew/pharma_crew.py)      *)
(*                                                                         *)
(* process_batch calls process_batch_async or process_batch_with_crew,     *)
(* depending on use_async_processing.  The same batch is taken through     *)
(* both and crew.kickoff() is given the same outcome in both: a result     *)
(* with a raw text, the telemetry error, or another error.                 *)
(***************************************************************************)

(* the batches handed to process_batch *)
CurrentBatches == {[k \in 1..n |-> k] : n \in 1..MaxBatchSize}

(* the responses given to both modes: a body bare or in a json fence *)
Responses ==
    Bodies \cup {Fence \o <<"json", "\n">> \o body \o <<"\n">> \o Fence : body \in Bodies}

(* what crew.kickoff() does *)
KickoffResults ==
    {[kind |-> "text", raw |-> t] : t \in Responses}
    \cup {[kind |-> "telemetry_error", raw |-> <<>>],
          [kind |-> "other_error", raw |-> <<>>]}

(* MockResult(raw='[]') *)
MockRaw == <<"[", "]">>

(* process_batch_async from crew.kickoff() on (lines 331-370) *)
process_batch_async(out) ==
    IF out.kind = "other_error" THEN EmptyArray
    ELSE LET cleaned == clean_json_text(IF out.kind = "telemetry_error"
                                        THEN MockRaw ELSE out.raw)
             strict == json_loads(cleaned)
             second == json_loads(AggressiveFilter(cleaned))
         IN  IF strict.tag # "fail"
             THEN (IF HasLen(strict) THEN strict ELSE EmptyArray)
             ELSE (IF second.tag # "fail" /\ HasLen(second) THEN second ELSE EmptyArray)

process_batch_with_crew_NoRecovery(out) ==
    IF out.kind = "other_error" THEN EmptyArray
    ELSE LET cleaned == clean_json_text(IF out.kind = "telemetry_error"
                                        THEN MockRaw ELSE out.raw)
             strict == json_loads(cleaned)
         IN  IF strict.tag # "fail" /\ HasLen(strict) THEN strict ELSE EmptyArray

(* process_batch_with_crew from crew.kickoff() on (lines 397-436) *)
process_batch_with_crew(out) ==
    IF out.kind = "other_error" THEN EmptyArray
    ELSE LET cleaned == clean_json_text(IF out.kind = "telemetry_error"
                                        THEN MockRaw ELSE out.raw)
             strict == json_loads(cleaned)
             second == json_loads(AggressiveFilter(cleaned))
         IN  IF strict.tag # "fail"
             THEN (IF HasLen(strict) THEN strict ELSE EmptyArray)
             ELSE (IF second.tag # "fail" /\ HasLen(second) THEN second ELSE EmptyArray)

ModeInit == EngineIdle /\ ToolIdle /\ RepairIdle /\ PersonIdle /\ MoreIdle

(* process_batch(batch_index) up to crew.kickoff(): the async mode runs    *)
(* process_attendees on the batch (one execute_async call per item) and    *)
(* builds the task from the outcomes; the crew mode builds it from the     *)
(* batch itself (create_analyze_task) and calls no tool                    *)
ProcessBatch(batch) ==
    /\ mpc = "idle"
    /\ current_batch' = batch
    /\ enrichment_calls' = [m \in Modes |-> IF m = "async" THEN Len(batch) ELSE 0]
    /\ classified' = [m \in Modes |-> IF m = "async" THEN "search_results" ELSE "current_batch"]
    /\ mpc' = "kickoff"
    /\ UNCHANGED <<engine, tool, repair, person, runs, prep, kickoff, returned>>

(* crew.kickoff() returns or raises, the response is repaired and the      *)
(* batch returns *)
ProcessBatchEnd(out) ==
    /\ mpc = "kickoff"
    /\ kickoff' = out
    /\ returned' = [m \in Modes |-> IF m = "async" THEN process_batch_async(out)
                                    ELSE process_batch_with_crew(out)]
    /\ mpc' = IF out.kind = "text" THEN "returned" ELSE out.kind
    /\ UNCHANGED <<engine, tool, repair, person, runs, prep, current_batch, enrichment_calls,
                   classified>>

ModeNext ==
    \/ \E batch \in CurrentBatches : ProcessBatch(batch)
    \/ \E out \in KickoffResults : ProcessBatchEnd(out)

ModeSpec == ModeInit /\ [][ModeNext]_vars


(***************************************************************************)
(* PharmaCrew.analyze called several times on one instance                 *)
(*   (src/conference/src/conference/crews/pharma_crew/pharma_crew.py)      *)
(*                                                                         *)
(* A list is an object: lists[r] is the content of list object r.  The     *)
(* item list of the instance is not empty.  A record is identified by the  *)
(* call and the batch that produced it.                                    *)
(***************************************************************************)

(* what process_batch returns for batch i in call c: nothing or a record *)
BatchRecords(c, i) == {<<>>, <<[call |-> c, batch |-> i]>>}

RunInit == EngineIdle /\ ToolIdle /\ RepairIdle /\ PersonIdle /\ MoreIdle

Rebind_SameList(heap, ref) == [lists |-> heap, ref |-> ref]

(* self.all_results = []: a new list object is created and the field is    *)
(* bound to it; the list it was bound to is left as it is                  *)
Rebind(heap, ref) == [lists |-> Append(heap, <<>>), ref |-> Len(heap) + 1]

(* analyze is called: lines 463-470, and the executor is created and the   *)
(* batches are submitted (lines 492-498).  When the executor cannot be     *)
(* created the outer except returns a new empty list.                      *)
AnalyzeCall(n, pool_ok) ==
    /\ cpc = "idle"
    /\ calls_made < MaxCalls
    /\ calls_made' = calls_made + 1
    /\ LET b == Rebind(lists, self_all_results)
       IN  /\ self_all_results' = b.ref
           /\ IF pool_ok
              THEN /\ lists' = b.lists
                   /\ to_collect' = 0..(n - 1)
                   /\ cpc' = "collect"
                   /\ UNCHANGED analyze_returns
              ELSE /\ lists' = Append(b.lists, <<>>)
                   /\ analyze_returns' = Append(analyze_returns, Len(b.lists) + 1)
                   /\ to_collect' = {}
                   /\ cpc' = "idle"
    /\ UNCHANGED <<engine, tool, repair, person, modes, prep>>

(* one iteration of the as_completed loop: batch i has ended with the      *)
(* records recs and self.all_results.extend(batch_results) adds them to    *)
(* the list the field is bound to (lines 501-507)                          *)
Extend(i, recs) ==
    /\ cpc = "collect"
    /\ i \in to_collect
    /\ lists' = [lists EXCEPT ![self_all_results] = @ \o recs]
    /\ to_collect' = to_collect \ {i}
    /\ UNCHANGED <<engine, tool, repair, person, modes, prep, self_all_results, calls_made,
                   analyze_returns, cpc>>

(* the loop is exhausted: save_final_results, return self.all_results      *)
(* (lines 511-514); when saving raises the outer except returns a new      *)
(* empty list (lines 515-519)                                              *)
AnalyzeEnd(save_ok) ==
    /\ cpc = "collect"
    /\ to_collect = {}
    /\ IF save_ok
       THEN /\ analyze_returns' = Append(analyze_returns, self_all_results)
            /\ UNCHANGED lists
       ELSE /\ lists' = Append(lists, <<>>)
            /\ analyze_returns' = Append(analyze_returns, Len(lists) + 1)
    /\ cpc' = "idle"
    /\ UNCHANGED <<engine, tool, repair, person, modes, prep, self_all_results, calls_made,
                   to_collect>>

RunNext ==
    \/ \E n \in 1..MaxBatches : \E pool_ok \in BOOLEAN : AnalyzeCall(n, pool_ok)
    \/ \E i \in 0..(MaxBatches - 1) :
          \E recs \in BatchRecords(calls_made, i) : Extend(i, recs)
    \/ \E save_ok \in BOOLEAN : AnalyzeEnd(save_ok)

RunSpec == RunInit /\ [][RunNext]_vars


(* ---- utils.preprocess_attendee_data (RowsSpec) ---- *)
(* a cell of the data frame: a string, or NaN for an empty cell *)
NaN == [type |-> "NaN", s |-> <<>>]

NameCells == {NaN, Str(<<" ">>), Str(<<"J">>)}
OrganizationCells == {NaN, Str(<<" ">>), Str(<<"A">>), Str(<<"A", "c">>)}
EmailCells ==
    {NaN, Str(<<" ">>), Str(<<"x">>),
     Str(<<"x", "@", "x", ".", "x">>), Str(<<" ", "x", "@", "x", ".", "x">>),
     Str(<<"x", "@", "x", "x", ".", "x">>)}

(* the rows df.iterrows() yields, by the four required columns *)
Rows ==
    [first_name : NameCells, last_name : NameCells,
     email : EmailCells, organization : OrganizationCells]

(* row[col].strip() if not pd.isna(row[col]) else '' *)
CellText(c) == IF c.type = "NaN" THEN <<>> ELSE strip(c.s)

(* not v, for a value that is a string or None *)
Falsy(v) == v.type = "None" \/ v.s = <<>>

(* lines 88-91: the organization of a row, from the cell or from the email *)
Organization(row) ==
    IF CellText(row.organization) = <<>>
    THEN extract_company_from_email(Str(CellText(row.email)))
    ELSE Str(CellText(row.organization))

(* lines 93-100: the attendee info dictionary of a row *)
AttendeeInfo(row) ==
    [first_name |-> CellText(row.first_name),
     last_name |-> CellText(row.last_name),
     email |-> CellText(row.email),
     organization |-> Organization(row),
     company_from_email |-> extract_company_from_email(Str(CellText(row.email)))]

(* where the record of email e is kept, 0 if it is not *)
KeptAt(e) ==
    IF \E p \in DOMAIN attendees_by_email : attendees_by_email[p].email = e
    THEN CHOOSE p \in DOMAIN attendees_by_email : attendees_by_email[p].email = e
    ELSE 0

(* lines 104-107: what the row puts in place of the kept record: the       *)
(* kept organization when the row has none                                 *)
Replacement(kept, row) ==
    IF Falsy(Organization(row)) /\ ~Falsy(kept.organization)
    THEN [AttendeeInfo(row) EXCEPT !.organization = kept.organization]
    ELSE AttendeeInfo(row)

(* lines 109-112: the row is taken to hold more information *)
MoreInformation(kept, row) ==
    \/ Len(Organization(row).s) > Len(kept.organization.s)
    \/ kept.first_name = <<>> /\ CellText(row.first_name) # <<>>
    \/ kept.last_name = <<>> /\ CellText(row.last_name) # <<>>

RowsInit == EngineIdle /\ ToolIdle /\ RepairIdle /\ PersonIdle /\ MoreIdle

(* lines 31-77: the file is looked up, read and its columns checked; a     *)
(* missing file, an unsupported format, a read error or a missing column   *)
(* return None                                                             *)
Preprocess(file_ok) ==
    /\ dpc = "idle"
    /\ IF file_ok
       THEN dpc' = "rows" /\ UNCHANGED preprocessed
       ELSE dpc' = "returned" /\ preprocessed' = [tag |-> "None", v |-> <<>>]
    /\ UNCHANGED <<engine, tool, repair, person, modes, runs,
                   attendees_by_email, row_count, skipped_rows>>

(* lines 79-118: one pass of the loop over the rows *)
ReadRow(row) ==
    /\ dpc = "rows"
    /\ row_count < MaxRows
    /\ row_count' = row_count + 1
    /\ LET e == CellText(row.email)
           p == KeptAt(e)
       IN  IF e = <<>>
           THEN /\ skipped_rows' = skipped_rows + 1
                /\ UNCHANGED <<attendees_by_email, preprocessed, dpc>>
           ELSE IF p = 0
           THEN /\ attendees_by_email' = Append(attendees_by_email, AttendeeInfo(row))
                /\ UNCHANGED <<skipped_rows, preprocessed, dpc>>
           ELSE IF Organization(row).type = "None"
                   \/ attendees_by_email[p].organization.type = "None"
           THEN \* len(None) raises TypeError, caught at line 136
                /\ dpc' = "returned"
                /\ preprocessed' = [tag |-> "None", v |-> <<>>]
                /\ UNCHANGED <<attendees_by_email, skipped_rows>>
           ELSE /\ attendees_by_email' =
                       IF MoreInformation(attendees_by_email[p], row)
                       THEN [attendees_by_email EXCEPT
                                ![p] = Replacement(attendees_by_email[p], row)]
                       ELSE attendees_by_email
                /\ UNCHANGED <<skipped_rows, preprocessed, dpc>>
    /\ UNCHANGED <<engine, tool, repair, person, modes, runs>>

(* lines 120-139: the rows are exhausted; the list of the kept records is  *)
(* saved if an output path was given and returned; an error of the save    *)
(* returns None                                                            *)
PreprocessEnd(save_ok) ==
    /\ dpc = "rows"
    /\ dpc' = "returned"
    /\ preprocessed' = IF save_ok \/ attendees_by_email = <<>>
                       THEN [tag |-> "list", v |-> attendees_by_email]
                       ELSE [tag |-> "None", v |-> <<>>]
    /\ UNCHANGED <<engine, tool, repair, person, modes, runs,
                   attendees_by_email, row_count, skipped_rows>>

RowsNext ==
    \/ \E file_ok \in BOOLEAN : Preprocess(file_ok)
    \/ \E row \in Rows : ReadRow(row)
    \/ \E save_ok \in BOOLEAN : PreprocessEnd(save_ok)

RowsSpec == RowsInit /\ [][RowsNext]_vars


(***************************************************************************)
(* Properties                                                              *)
(***************************************************************************)

(* number of elements of the aggregate seq that come from batch i *)
CountOf(seq, i) == Cardinality({p \in DOMAIN seq : seq[p].batch = i})

(* number of items in the first n batches that ended "ok" *)
RECURSIVE OkItemsUpTo(_)
OkItemsUpTo(n) ==
    IF n = 0 THEN 0
    ELSE OkItemsUpTo(n - 1)
         + (IF how[n - 1] = "ok" THEN Len(preprocess_attendees(n - 1)) ELSE 0)

OkItems == OkItemsUpTo(total_batches)

(* C1: in every reachable state, for every batch, the number of enrichment *)
(* calls started and not yet returned is at most max_concurrent_searches.  *)
C1_InFlightAtMostC ==
    \A i \in Batches : Cardinality(InFlight(i)) <= max_concurrent_searches

(* C1 witness: the cap binds: C calls in flight while another item waits.  *)
C1_Witness ==
    \E i \in Batches :
        /\ max_concurrent_searches >= 1
        /\ Cardinality(InFlight(i)) = max_concurrent_searches
        /\ \E j \in DOMAIN tpc[i] : tpc[i][j] = "waiting"

(* C2: at most max_workers batch pipelines run at any time, and a batch    *)
(* with index >= max_workers starts only when some batch has finished.     *)
C2_RunningAtMostW ==
    /\ [](Cardinality(RunningBatches) <= max_workers)
    /\ [][\A i \in Batches :
            (bpc[i] = "queued" /\ bpc'[i] = "fanout" /\ i >= max_workers)
                => \E k \in Batches : bpc[k] = "done"]_vars

(* C2 witness: all W workers busy while a further batch is queued.         *)
C2_Witness ==
    /\ max_workers >= 1
    /\ Cardinality(RunningBatches) = max_workers
    /\ \E i \in Batches : bpc[i] = "queued"

(* C3: when analyze has returned after submitting batches, every batch     *)
(* ended by returning a value, a discarded batch contributes no element,   *)
(* and the aggregate holds exactly the elements the other batches          *)
(* returned, each once.                                                    *)
C3_PartialFailureIsolation ==
    (apc = "returned" /\ submitted > 0) =>
        /\ \A i \in Batches : bpc[i] = "done" /\ how[i] \in {"ok", "discarded"}
        /\ \A i \in Batches : how[i] = "discarded" => CountOf(retval, i) = 0
        /\ \A i \in Batches : how[i] = "ok" =>
               \A k \in 1..future[i].n :
                   Cardinality({p \in DOMAIN retval :
                       retval[p] = Elements(i, future[i])[k]}) = 1
        /\ \A p \in DOMAIN retval :
               /\ retval[p].batch \in Batches
               /\ how[retval[p].batch] = "ok"
               /\ retval[p].idx <= future[retval[p].batch].n

(* C3 witness: a finished run of several batches, one discarded, another   *)
(* with records, which are in the aggregate.                               *)
C3_Witness ==
    /\ apc = "returned"
    /\ \E i, k \in Batches :
          /\ how[i] = "discarded"
          /\ how[k] = "ok"
          /\ future[k].n > 0
          /\ CountOf(retval, k) = future[k].n

C5_PerItemFailureIsolation ==
    \A i \in Batches :
        /\ bpc[i] = "fanout" =>
              \A j \in DOMAIN tpc[i] :
                  /\ j \in raised[i] =>
                        /\ tpc[i][j] = "done"
                        /\ tres[i][j] = Outcome(preprocess_attendees(i)[j], "error")
                  /\ (j \notin raised[i] /\ tpc[i][j] = "done") =>
                        tres[i][j] = Outcome(preprocess_attendees(i)[j], "text")
        /\ bpc[i] = "kickoff" =>
              \A j \in DOMAIN search_results[i] :
                  search_results[i][j] =
                      Outcome(preprocess_attendees(i)[j],
                              IF j \in raised[i] THEN "error" ELSE "text")

(* C5 witness: the fan-out returned although one call raised; another      *)
(* item of the batch has its text.                                         *)
C5_Witness ==
    \E i \in Batches :
        /\ bpc[i] = "kickoff"
        /\ \E j, k \in DOMAIN search_results[i] :
              /\ j \in raised[i]
              /\ k \notin raised[i]
              /\ search_results[i][k].search_result = "text"

(* C6: analyze has returned only when every batch has been submitted, has  *)
(* ended and has been collected, also when some batch failed.              *)
C6_FinalizeAfterAll ==
    (apc = "returned" /\ submitted > 0) =>
        /\ submitted = total_batches
        /\ \A i \in Batches : bpc[i] = "done" /\ i \in collected

(* C6 witness: a run that returned with a discarded batch among several.   *)
C6_Witness ==
    /\ apc = "returned"
    /\ total_batches >= 2
    /\ collected = Batches
    /\ \E i \in Batches : how[i] = "discarded"

(* C7: crew.kickoff() of a batch is called only in a step in which every   *)
(* item task of the batch has returned its outcome.                        *)
C7_FanInBarrier ==
    [][\A i \in Batches :
          (bpc[i] # "kickoff" /\ bpc'[i] = "kickoff") =>
              /\ DOMAIN tpc[i] = DOMAIN preprocess_attendees(i)
              /\ \A j \in DOMAIN tpc[i] :
                    tpc[i][j] = "done" /\ tres[i][j].search_result # "none"
              /\ Len(search_results'[i]) = Len(preprocess_attendees(i))]_vars

(* C7 witness: classification running on a batch of at least two items.    *)
C7_Witness ==
    \E i \in Batches : bpc[i] = "kickoff" /\ Len(preprocess_attendees(i)) >= 2

(* C8: after a run the aggregate has at most as many elements as there are *)
(* items in the batches that were not discarded.                           *)
C8_AggregateSizeBound ==
    apc = "returned" => Len(retval) <= OkItems

C10_NeverHangs == apc = "returned" \/ ENABLED Next

(* the batches 0..n-1 one after the other *)
RECURSIVE ConcatUpTo(_)
ConcatUpTo(n) ==
    IF n = 0 THEN <<>> ELSE ConcatUpTo(n - 1) \o preprocess_attendees(n - 1)

(* the batches whose slice covers position p (0-based) of the list *)
BatchesOf(p) == {i \in Batches : BatchStart(i) <= p /\ p < BatchEnd(i)}

(* C11: the batches 0..total_batches-1 are contiguous slices, their        *)
(* concatenation in index order is the input list, every position of the   *)
(* list lies in exactly one batch, every batch has between 1 and           *)
(* batch_size items, and a running fan-out has one task per item of its    *)
(* slice.                                                                  *)
C11_BatchesPartitionInput ==
    /\ ConcatUpTo(total_batches) = attendees
    /\ \A p \in 0..(Len(attendees) - 1) : Cardinality(BatchesOf(p)) = 1
    /\ \A i \in Batches :
          /\ Len(preprocess_attendees(i)) \in 1..batch_size
          /\ BatchStart(i) = (IF i = 0 THEN 0 ELSE BatchEnd(i - 1))
          /\ bpc[i] = "fanout" => DOMAIN tpc[i] = DOMAIN preprocess_attendees(i)
    /\ Len(attendees) > 0 => BatchEnd(total_batches - 1) = Len(attendees)

(* C11 witness: a full batch and a short last batch, both fanned out.      *)
C11_Witness ==
    /\ total_batches >= 2
    /\ Len(preprocess_attendees(total_batches - 1)) < batch_size
    /\ \A i \in Batches : bpc[i] = "fanout" /\ Len(tpc[i]) = Len(preprocess_attendees(i))

(* C12: for a list of N >= 1 items and a pool of at least one worker,      *)
(* analyze submits exactly ceil(N/B) batches, those with the indices       *)
(* 0..ceil(N/B)-1; every batch but the last has B items and the last has   *)
(* N mod B items, or B when B divides N.                                   *)
C12_BatchCountAndSizes ==
    (Len(attendees) >= 1 /\ max_workers >= 1) =>
        /\ submitted * batch_size < Len(attendees) + batch_size
        /\ apc \in {"collect", "absorb", "returned"} =>
              /\ submitted * batch_size >= Len(attendees)
              /\ {i \in DOMAIN bpc : bpc[i] # "pending"} = 0..(submitted - 1)
              /\ \A i \in 0..(submitted - 2) :
                    Len(preprocess_attendees(i)) = batch_size
              /\ Len(preprocess_attendees(submitted - 1)) =
                    (IF Len(attendees) % batch_size = 0
                     THEN batch_size ELSE Len(attendees) % batch_size)

(* C12 witness: a finished run of three items in batches of two: two       *)
(* batches, the last one short.                                            *)
C12_Witness ==
    /\ apc = "returned"
    /\ Len(attendees) % batch_size # 0
    /\ submitted >= 2
    /\ Len(preprocess_attendees(submitted - 1)) = Len(attendees) % batch_size

(* C13: with an empty list analyze submits no batch, no batch pipeline     *)
(* and no item task ever exists (no enrichment call, no classification     *)
(* call), and the only step of the run is the return of an empty list.     *)
C13_EmptyInput ==
    Len(attendees) = 0 =>
        /\ submitted = 0
        /\ total_batches = 0
        /\ \A i \in DOMAIN bpc : bpc[i] = "pending" /\ tpc[i] = <<>>
        /\ all_results = <<>>
        /\ apc \in {"start", "returned"}
        /\ apc = "returned" => retval = <<>>
        /\ apc = "start" => ENABLED AnalyzeBegin

(* C13 witness: analyze has returned for an empty list although workers    *)
(* were available.                                                         *)
C13_Witness ==
    Len(attendees) = 0 /\ max_workers >= 1 /\ apc = "returned" /\ retval = <<>>

(* the records batch i returned, as they appear in the aggregate *)
RecordsOf(i) == {Elements(i, future[i])[k] : k \in 1..future[i].n}

(* number of positions of seq that hold e *)
Occurrences(seq, e) == Cardinality({p \in DOMAIN seq : seq[p] = e})

(* C14: whatever the order in which the batches complete and are           *)
(* collected, the aggregate holds, as a multiset, exactly the records      *)
(* returned by the batches collected so far, each once; when analyze has   *)
(* returned it is the multiset union of the records of all batches.        *)
C14_OrderIndependentAggregate ==
    /\ \A p \in DOMAIN all_results :
          /\ all_results[p].batch \in collected
          /\ all_results[p] \in RecordsOf(all_results[p].batch)
    /\ \A i \in collected : \A e \in RecordsOf(i) : Occurrences(all_results, e) = 1
    /\ (apc = "returned" /\ submitted > 0) =>
          /\ collected = Batches
          /\ retval = all_results

(* C14 witness: a finished run whose aggregate holds the records of a      *)
(* later batch before those of an earlier one, both complete.              *)
C14_Witness ==
    /\ apc = "returned"
    /\ \E p, q \in DOMAIN retval :
          /\ p < q
          /\ retval[p].batch > retval[q].batch
          /\ future[retval[p].batch].n >= 2
          /\ CountOf(retval, retval[p].batch) = future[retval[p].batch].n
          /\ CountOf(retval, retval[q].batch) = future[retval[q].batch].n

(* C15: the aggregate changes only in the step of the analyze thread that  *)
(* runs the body of the with block, which starts with results_lock held by *)
(* that thread and ends with its release; the thread is inside the block   *)
(* exactly while it holds the lock, and no step of a worker thread or of   *)
(* an item task changes the aggregate.                                     *)
C15_SerializedAggregation ==
    /\ [](/\ results_lock \in {"free", "analyze"}
          /\ (apc = "absorb") <=> (results_lock = "analyze"))
    /\ [][all_results' # all_results =>
            /\ results_lock = "analyze"
            /\ results_lock' = "free"
            /\ \E i \in Batches : Collect(i)]_vars

(* C15 witness: the lock is held for one batch while a second batch has    *)
(* ended and waits to be absorbed and a third is still running.            *)
C15_Witness ==
    /\ results_lock = "analyze"
    /\ \E k, m \in Batches :
          /\ k # loop_batch_index
          /\ CollectGuard(k)
          /\ Running(m)

(* a response whose strict parse and whose parse after the character       *)
(* filter both raise JSONDecodeError                                       *)
Unrecoverable == Kick("text", ParseFail, ParseFail)

(* C16: when crew.kickoff() returns a text whose strict parse fails and    *)
(* whose parse after the aggressive filter fails too, the batch ends by    *)
(* returning the empty list (no salvaged record, no exception) and is      *)
(* discarded; and a discarded batch never has an element in the            *)
(* aggregate.                                                              *)
C16_UnrecoverableDiscards ==
    /\ [](\A i \in Batches :
            how[i] = "discarded" =>
                /\ future[i] = EmptyList
                /\ CountOf(all_results, i) = 0
                /\ CountOf(retval, i) = 0)
    /\ [][\A i \in Batches :
            KickoffReturn(i, Unrecoverable) =>
                /\ bpc'[i] = "done"
                /\ future'[i] = EmptyList
                /\ how'[i] = "discarded"
                /\ all_results' = all_results]_vars

(* C16 witness: a batch of a run with several batches is in its            *)
(* classification call, and the return of an unrecoverable response        *)
(* leaves it discarded with the empty list.                                *)
C16_Witness ==
    \E i \in Batches :
        /\ total_batches >= 2
        /\ bpc[i] = "kickoff"
        /\ ENABLED (/\ KickoffReturn(i, Unrecoverable)
                    /\ how'[i] = "discarded"
                    /\ future'[i] = EmptyList)

(* C17: when crew.kickoff() raises the telemetry error the batch ends by   *)
(* the return statement of the strict parse, with the empty list, and      *)
(* counts as ok; when it raises any other error the batch ends by the      *)
(* outer except clause, with the empty list, and is discarded; either      *)
(* way the batch ends with a value.                                        *)
C17_TelemetryErrorIsEmptySuccess ==
    [][\A i \in Batches : \A k \in KickoffOutcomes :
          (k.kind \in {"telemetry_error", "other_error"} /\ KickoffReturn(i, k)) =>
              /\ bpc'[i] = "done"
              /\ future'[i] = EmptyList
              /\ k.kind = "telemetry_error" =>
                    (ReturnPath(k) = "parsed" /\ how'[i] = "ok")
              /\ k.kind = "other_error" =>
                    (ReturnPath(k) = "except" /\ how'[i] = "discarded")]_vars

(* C17 witness: a batch is in its classification call and the telemetry    *)
(* error leaves it ok with the empty list.                                 *)
C17_Witness ==
    \E i \in Batches :
        /\ bpc[i] = "kickoff"
        /\ ENABLED (/\ KickoffReturn(i, Kick("telemetry_error", ParseFail, ParseFail))
                    /\ how'[i] = "ok"
                    /\ future'[i] = EmptyList)

(* progress of a batch pipeline and of an item task *)
BatchRank(st) ==
    CASE st = "pending" -> 0 [] st = "queued" -> 1 [] st = "fanout" -> 2
      [] st = "kickoff" -> 3 [] st = "done" -> 4

TaskRank(st) ==
    CASE st = "waiting" -> 0 [] st \in {"sleeping", "entered"} -> 1
      [] st = "searching" -> 2 [] st \in {"done", "failed"} -> 3

(* C19: no batch and no item task ever moves back: a batch is submitted    *)
(* once (from pending, by the submit that counts it), starts its fan-out   *)
(* once, and enters crew.kickoff() once, from its fan-out; an item task    *)
(* is created only when its batch starts, and starts its execute_async     *)
(* call once, from its pacing wait; and a run that submitted has           *)
(* submitted every batch.                                                  *)
C19_NoRetries ==
    /\ []((apc = "returned" /\ submitted > 0) =>
             (submitted = total_batches /\ \A i \in Batches : bpc[i] = "done"))
    /\ [][\A i \in DOMAIN bpc :
            /\ BatchRank(bpc'[i]) >= BatchRank(bpc[i])
            /\ (bpc'[i] = "queued" /\ bpc[i] # "queued") =>
                  (bpc[i] = "pending" /\ i = submitted /\ submitted' = submitted + 1)
            /\ (bpc'[i] = "fanout" /\ bpc[i] # "fanout") => bpc[i] = "queued"
            /\ (bpc'[i] = "kickoff" /\ bpc[i] # "kickoff") => bpc[i] = "fanout"
            /\ DOMAIN tpc'[i] # DOMAIN tpc[i] =>
                  \/ bpc[i] = "queued" /\ bpc'[i] = "fanout"
                  \/ bpc[i] = "fanout" /\ bpc'[i] # "fanout" /\ tpc'[i] = <<>>
            /\ \A j \in DOMAIN tpc[i] \cap DOMAIN tpc'[i] :
                  /\ TaskRank(tpc'[i][j]) >= TaskRank(tpc[i][j])
                  /\ (tpc'[i][j] = "searching" /\ tpc[i][j] # "searching") =>
                        TaskRank(tpc[i][j]) = 1]_vars

(* C19 witness: one batch has been discarded and another is in its         *)
(* classification call after the enrichment call of one of its items       *)
(* raised.                                                                 *)
C19_Witness ==
    \E i, k \in Batches :
        /\ bpc[i] = "done" /\ how[i] = "discarded"
        /\ bpc[k] = "kickoff" /\ raised[k] # {}

C18_NeverRaises ==
    /\ xpc # "raised"
    /\ xpc = "returned" => xret # ""


(* ---- the repair of a response (RepairSpec) ---- *)
(* the sequences of seqs concatenated, from position p on *)
RECURSIVE FlattenFrom(_, _)
FlattenFrom(seqs, p) ==
    IF p > Len(seqs) THEN <<>> ELSE seqs[p] \o FlattenFrom(seqs, p + 1)

(* a well-formed array text wrapped in a json fence with newlines *)
Wrap(text) == Fence \o <<"json", "\n">> \o text \o <<"\n">> \o Fence

NoTick(text) == \A p \in DOMAIN text : text[p] # Tick

(* C21: for every array whose text (from its opening to its closing        *)
(* bracket) holds no backtick, clean_json_text of the text wrapped in a    *)
(* json fence with newlines is the text itself, and the strict parse of    *)
(* it returns that array.                                                  *)
C21_FenceRoundTrip ==
    \A arr \in Arrays :
        (NoTick(Encode(arr)) /\ raw = Wrap(Encode(arr))) =>
            /\ rpc = "cleaned" => cleaned_text = Encode(arr)
            /\ rpc \notin {"idle", "kickoff", "cleaned"} =>
                   rpc = "parsed" /\ cleaned_text = Encode(arr) /\ batch_results = arr

C21_Witness ==
    \E arr \in Arrays :
        /\ Len(arr.v) >= 2
        /\ \E x \in DOMAIN arr.v : arr.v[x].tag = "object"
        /\ NoTick(Encode(arr))
        /\ raw = Wrap(Encode(arr))
        /\ rpc = "parsed"
        /\ batch_results = arr

(* the positions of text t where an enumeration of opts begins *)
Occurrences1(t) == {p \in DOMAIN t : MatchOptions(t, p, Options1, 1) > 0}
Occurrences2(t) == {p \in DOMAIN t : MatchOptions(t, p, Options2, 1) > 0}

(* position p of t lies in an enumeration, after its first token *)
Inside(t, p) ==
    \/ \E o \in Occurrences1(t) : o < p /\ p < MatchOptions(t, o, Options1, 1)
    \/ \E o \in Occurrences2(t) : o < p /\ p < MatchOptions(t, o, Options2, 1)

(* t with every enumeration replaced by its first option and the tokens    *)
(* outside the enumerations kept                                           *)
Collapsed(t) ==
    FlattenFrom([p \in DOMAIN t |->
                    IF p \in Occurrences1(t) THEN <<Options1[1]>>
                    ELSE IF p \in Occurrences2(t) THEN <<Options2[1]>>
                    ELSE IF Inside(t, p) THEN <<>>
                    ELSE <<t[p]>>], 1)

(* C22: in the text left by the fence stripping, every occurrence of one   *)
(* of the two enumerations of the repair table (the quoted options joined  *)
(* by whitespace, or, whitespace) is replaced by its first quoted option,  *)
(* and every token outside these occurrences is kept in place.             *)
C22_EnumerationsCollapse ==
    rpc = "cleaned" => cleaned_text = Collapsed(StripFences(raw))

C22_Witness ==
    /\ rpc = "cleaned"
    /\ Occurrences1(StripFences(raw)) # {}
    /\ Occurrences2(StripFences(raw)) # {}
    /\ Len(cleaned_text) < Len(StripFences(raw))
    /\ \E p \in DOMAIN cleaned_text : cleaned_text[p] = "\"Pharma\""
    /\ \A p \in DOMAIN cleaned_text : cleaned_text[p] # "or"

(* the position of a step in the repair *)
RepairRank ==
    CASE rpc = "idle" -> 0
      [] rpc = "kickoff" -> 1
      [] rpc = "cleaned" -> 2
      [] rpc = "JSONDecodeError" -> 3
      [] rpc = "filtered" -> 4
      [] OTHER -> 5

(* C27: the character filter is applied only after the strict parse of     *)
(* the cleaned text has failed, to the text clean_json_text returned, and  *)
(* at most once (the steps of a repair only go forward); when the strict   *)
(* parse returns a value that is returned (an array; also an object or a   *)
(* string) it is the parse of the cleaned text and the filter has not      *)
(* touched the text.                                                       *)
C27_RepairOrder ==
    /\ [](/\ rpc \in {"JSONDecodeError", "filtered", "recovered", "skipped"} =>
                 json_loads(clean_json_text(raw)).tag = "fail"
          /\ rpc \in {"cleaned", "JSONDecodeError", "parsed", "except"} =>
                 cleaned_text = clean_json_text(raw)
          /\ rpc = "parsed" => batch_results = json_loads(clean_json_text(raw))
          /\ rpc \in {"filtered", "recovered", "skipped"} =>
                 cleaned_text = AggressiveFilter(clean_json_text(raw)))
    /\ [][/\ RepairRank' > RepairRank
          /\ rpc' = "filtered" => rpc = "JSONDecodeError"
          /\ (rpc # "kickoff" /\ cleaned_text' # cleaned_text) => rpc' = "filtered"]_vars

C27_Witness ==
    /\ rpc = "recovered"
    /\ cleaned_text # clean_json_text(raw)
    /\ batch_results.tag = "array"
    /\ Len(batch_results.v) >= 2

(* the characters of a token *)
Spelling(c) ==
    CASE c = "json" ->
             <<"j", "s", "o", "n">>
      [] c = "or" ->
             <<"o", "r">>
      [] c = "\"Pharmaceutical\"" ->
             <<"\"", "P", "h", "a", "r", "m", "a", "c", "e", "u", "t", "i", "c", "a", "l", "\"">>
      [] c = "\"Healthcare\"" ->
             <<"\"", "H", "e", "a", "l", "t", "h", "c", "a", "r", "e", "\"">>
      [] c = "\"Other\"" ->
             <<"\"", "O", "t", "h", "e", "r", "\"">>
      [] c = "\"Pharma\"" ->
             <<"\"", "P", "h", "a", "r", "m", "a", "\"">>
      [] c = "\"Oncology\"" ->
             <<"\"", "O", "n", "c", "o", "l", "o", "g", "y", "\"">>
      [] c = "\"Women's Health\"" ->
             <<"\"", "W", "o", "m", "e", "n", "'", "s", " ", "H", "e", "a", "l", "t", "h", "\"">>
      [] c = "\"Organ Studies\"" ->
             <<"\"", "O", "r", "g", "a", "n", " ", "S", "t", "u", "d", "i", "e", "s", "\"">>
      [] c = "\"Not a Lead\"" ->
             <<"\"", "N", "o", "t", " ", "a", " ", "L", "e", "a", "d", "\"">>
      [] c = "\"Womens Health\"" ->
             <<"\"", "W", "o", "m", "e", "n", "s", " ", "H", "e", "a", "l", "t", "h", "\"">>
      [] OTHER -> <<c>>

Spell(t) == FlattenFrom([p \in DOMAIN t |-> Spelling(t[p])], 1)

Letters ==
    {"a", "b", "c", "d", "e", "f", "g", "h", "i", "j", "k", "l", "m",
     "n", "o", "p", "q", "r", "s", "t", "u", "v", "w", "x", "y", "z",
     "A", "B", "C", "D", "E", "F", "G", "H", "I", "J", "K", "L", "M",
     "N", "O", "P", "Q", "R", "S", "T", "U", "V", "W", "X", "Y", "Z"}

Digits == {"0", "1", "2", "3", "4", "5", "6", "7", "8", "9"}

(* the characters the filter is said to keep *)
KeptCharacters ==
    {"[", "]", "{", "}", "\"", ",", ":", "_", "-"} \cup Letters \cup Digits \cup Whitespace

IsKept(ch) == ch \in KeptCharacters

(* C28: the text handed to the second parse is the cleaned text without    *)
(* the characters outside [ ] { } " , : a-z A-Z 0-9 _ - and whitespace,    *)
(* the kept characters in their order: '.', apostrophes, backslashes,      *)
(* backticks and letters outside a-z A-Z are removed, nothing is added.    *)
C28_FilterKeepsClass ==
    rpc \in {"filtered", "recovered", "skipped"} =>
        Spell(cleaned_text) = SelectSeq(Spell(clean_json_text(raw)), IsKept)

C28_Witness ==
    /\ rpc = "filtered"
    /\ {".", "'", EAcute} \subseteq Range(Spell(clean_json_text(raw)))
    /\ {".", "'", EAcute} \cap Range(Spell(cleaned_text)) = {}
    /\ {"[", "\"", ",", " ", "a"} \subseteq Range(Spell(cleaned_text))


(* ---- one attendee, one email (PersonSpec) ---- *)
(* the positions of e that hold '@' *)
Ats(e) == {p \in DOMAIN e : e[p] = "@"}

(* the positions of e that hold '.' after position p *)
DotsAfter(e, p) == {d \in DOMAIN e : d > p /\ e[d] = "."}

(* the least element of a non-empty set of numbers *)
Least(S) == CHOOSE x \in S : \A y \in S : x <= y

(* the text between the first '@' of e and the first '.' after it (the     *)
(* end of e if there is none)                                              *)
LabelAfterAt(e) ==
    IF DotsAfter(e, Least(Ats(e))) = {} THEN SubSeq(e, Least(Ats(e)) + 1, Len(e))
    ELSE SubSeq(e, Least(Ats(e)) + 1, Least(DotsAfter(e, Least(Ats(e)))) - 1)

(* C23 as stated: the company_domain of an outcome is the text between     *)
(* '@' and the first following '.' of the email, 'unknown.com' for an      *)
(* email without '@'.                                                      *)
C23_DomainIsLabel ==
    ppc = "returned" =>
        result.company_domain =
            IF Ats(attendee.email.s) = {} THEN UnknownCom ELSE LabelAfterAt(attendee.email.s)

(* d is what follows the last '@' of e *)
IsHostPart(e, d) ==
    \E p \in Ats(e) : e = SubSeq(e, 1, p) \o d /\ Ats(d) = {}

(* C23: for an attendee whose email is a string the call returns; the      *)
(* company_domain of the outcome is what follows the last '@' of the       *)
(* email, dots included; it is 'unknown.com' when the email has no '@',    *)
(* and after a successful search also when nothing follows the last '@'.   *)
C23_DomainIsHostPart ==
    /\ ppc = "raised" => attendee.email.type # "str"
    /\ ppc = "returned" =>
           LET e == attendee.email.s
               d == result.company_domain
           IN  /\ Ats(e) = {} => d = UnknownCom
               /\ (Ats(e) # {} /\ ~IsHostPart(e, <<>>)) => IsHostPart(e, d)
               /\ (Ats(e) # {} /\ IsHostPart(e, <<>>)) =>
                      d = IF result.search_result = "text" THEN UnknownCom ELSE <<>>

C23_Witness ==
    /\ ppc = "returned"
    /\ result.search_result = "text"
    /\ attendee.organization = <<>>
    /\ attendee.email.s = <<"x", "@", "x", ".">>
    /\ result.company_domain = <<"x", ".">>

(* the '@' of e that are followed by a non-empty run of characters other   *)
(* than '.' and then a '.'                                                 *)
LabelledAts(e) ==
    {p \in Ats(e) : DotsAfter(e, p) # {} /\ Least(DotsAfter(e, p)) > p + 1}

(* C24: for an email holding an '@' followed by a non-empty run of         *)
(* characters other than '.' and then a '.', extract_company_from_email    *)
(* returns that run (of the first such '@'); for None, the empty string    *)
(* and an email without '@' it returns None.                               *)
C24_ExtractCompany ==
    ppc = "extracted" =>
        /\ (email.type = "None" \/ email.s = <<>> \/ Ats(email.s) = {}) => company = None
        /\ (email.type = "str" /\ LabelledAts(email.s) # {}) =>
               /\ company.type = "str"
               /\ company.s = SubSeq(email.s, Least(LabelledAts(email.s)) + 1,
                                     Least(DotsAfter(email.s, Least(LabelledAts(email.s)))) - 1)

C24_Witness ==
    /\ ppc = "extracted"
    /\ email = Str(<<"x", "@", "x", ".">>)
    /\ company = Str(<<"x">>)

Blank(name) == \A p \in DOMAIN name : name[p] \in Whitespace

(* C25: every outcome process_attendee returns, after the search and from  *)
(* its except clause alike, has a person_name that is not empty; it is     *)
(* 'Unknown' exactly when first_name and last_name are both blank.         *)
C25_PersonNameFallback ==
    ppc = "returned" =>
        /\ result.person_name # <<>>
        /\ result.person_name = Unknown <=>
               (Blank(attendee.first_name) /\ Blank(attendee.last_name))

C25_Witness ==
    /\ ppc = "returned"
    /\ result.search_result = "Error"
    /\ attendee.first_name = <<" ">>
    /\ attendee.last_name = <<>>
    /\ result.person_name = Unknown


(* ---- the engine (Spec), continued ---- *)
(* C26 as stated: a batch returns records of a parse only as a JSON array, *)
(* and every element of all_results is an element of such an array.        *)
C26_OnlyArraysAbsorbed ==
    /\ \A i \in Batches : (bpc[i] = "done" /\ how[i] = "ok") => future[i].tag = "array"
    /\ \A p \in DOMAIN all_results : all_results[p].tag = "array"

(* enrichment calls in flight in the batches 0 .. n-1 *)
RECURSIVE InFlightUpTo(_)
InFlightUpTo(n) ==
    IF n = 0 THEN 0 ELSE InFlightUpTo(n - 1) + Cardinality(InFlight(n - 1))

TotalInFlight == InFlightUpTo(total_batches)

(* C29: in every reachable state the number of enrichment calls in flight  *)
(* in all batches together is at most max_workers times                    *)
(* max_concurrent_searches.                                                *)
C29_GlobalInFlightBound ==
    TotalInFlight <= max_workers * max_concurrent_searches

C29_Witness ==
    /\ max_workers >= 2
    /\ max_concurrent_searches >= 1
    /\ TotalInFlight = max_workers * max_concurrent_searches
    /\ Cardinality({i \in Batches : InFlight(i) # {}}) = max_workers

(* the first task of batch i in the queue of its semaphore *)
FirstWaiting(i) ==
    CHOOSE j \in DOMAIN tpc[i] :
        tpc[i][j] = "waiting" /\ \A k \in DOMAIN tpc[i] : k < j => tpc[i][k] # "waiting"

(* C30: the permits of a batch are its own: the first waiting item task of *)
(* a running batch can take a permit exactly when fewer than               *)
(* max_concurrent_searches tasks of its own batch hold one, whatever the   *)
(* tasks of the other batches hold.                                        *)
C30_IndependentPools ==
    \A i \in Batches :
        (bpc[i] = "fanout" /\ \E j \in DOMAIN tpc[i] : tpc[i][j] = "waiting") =>
            (ENABLED Acquire(i, FirstWaiting(i)) <=> Held(i) < max_concurrent_searches)

(* C30 witness: all batches run at once, W x C calls are in flight, one    *)
(* batch has all its permits taken and an item waiting, and an item of     *)
(* another batch has got its permit all the same.                          *)
C30_Witness ==
    /\ max_concurrent_searches >= 1
    /\ total_batches >= 2
    /\ RunningBatches = Batches
    /\ TotalInFlight = max_workers * max_concurrent_searches
    /\ \E i, k \in Batches :
        /\ i # k
        /\ bpc[i] = "fanout" /\ bpc[k] = "fanout"
        /\ sem[i] = 0
        /\ \E j \in DOMAIN tpc[i] : tpc[i][j] = "waiting"
        /\ InFlight(k) # {}

(* the state of a batch in the terms of the specification: Pending,        *)
(* Submitted (in the queue of the executor), Running (process_batch is     *)
(* being run by a worker thread), Completed (process_batch has returned)   *)
Phase(st) ==
    CASE st = "pending" -> 0 [] st = "queued" -> 1
      [] st \in {"fanout", "kickoff"} -> 2 [] st = "done" -> 3

(* C31: every batch moves only forward, one state at a time, through       *)
(* Pending, Submitted, Running and Completed; it is Completed exactly when *)
(* it is ok or not ok, and that outcome and the value returned never       *)
(* change afterwards; its value is absorbed into the aggregate in one step *)
(* only, after it completed, and the elements it has in the aggregate are  *)
(* those of that one absorption.                                           *)
C31_BatchStateMachine ==
    /\ [](\A i \in DOMAIN bpc :
            /\ (bpc[i] = "done") <=> (how[i] \in {"ok", "discarded"})
            /\ how[i] \in {"none", "ok", "discarded"}
            /\ i \in collected => bpc[i] = "done"
            /\ CountOf(all_results, i) = (IF i \in collected THEN future[i].n ELSE 0))
    /\ [][\A i \in DOMAIN bpc :
            /\ Phase(bpc'[i]) \in {Phase(bpc[i]), Phase(bpc[i]) + 1}
            /\ bpc[i] = "done" => (how'[i] = how[i] /\ future'[i] = future[i])
            /\ CountOf(all_results', i) # CountOf(all_results, i) =>
                  (i \notin collected /\ i \in collected' /\ bpc[i] = "done")
            /\ i \in collected => i \in collected']_vars

(* C31 witness: one batch completed ok and its records are absorbed, a     *)
(* second completed not ok and is absorbed too, a third is still running.  *)
C31_Witness ==
    \E i, k, m \in Batches :
        /\ how[i] = "ok" /\ i \in collected /\ future[i].n >= 1
        /\ CountOf(all_results, i) = future[i].n
        /\ how[k] = "discarded" /\ k \in collected
        /\ Running(m)

(* the fields of the PharmaCrew instance and the module-level variable     *)
(* that all batch pipelines of a run can reach                             *)
SharedState == <<attendees, batch_size, max_workers, max_concurrent_searches,
                 total_batches, all_results, results_lock, tasks_config,
                 _async_clients>>

(* the variables owned by the batch pipelines: every step of a worker      *)
(* thread or of an item task changes one of them                           *)
PipelineState == <<tpc, tres, sem, search_results, future, how, raised>>

(* C32: a step that changes a field of the PharmaCrew instance or a        *)
(* module-level variable is a step of the thread running analyze and no    *)
(* step of a batch pipeline; once batches are submitted the only such      *)
(* field that changes is the aggregate, together with the lock that        *)
(* guards it, and the aggregate changes only in the analyze thread's       *)
(* absorbing step.                                                         *)
C32_OnlyAggregateShared ==
    [][/\ SharedState' # SharedState =>
            /\ apc' # apc
            /\ PipelineState' = PipelineState
            /\ \A i \in Batches : Running(i) => bpc'[i] = bpc[i]
       /\ (submitted > 0 /\ SharedState' # SharedState) =>
            /\ <<attendees, batch_size, max_workers, max_concurrent_searches,
                 total_batches, tasks_config, _async_clients>>'
               = <<attendees, batch_size, max_workers, max_concurrent_searches,
                   total_batches, tasks_config, _async_clients>>
            /\ apc \in {"collect", "absorb"}
       /\ all_results' # all_results => (apc = "absorb" /\ apc' = "collect")]_vars

(* C32 witness: the task of a batch is being built from the task           *)
(* configuration while another batch is in its classification call and a   *)
(* third has ended and waits to be absorbed.                               *)
C32_Witness ==
    \E i, k, m \in Batches :
        /\ bpc[i] = "fanout" /\ ENABLED FanoutReturn(i, TRUE)
        /\ bpc[k] = "kickoff"
        /\ bpc[m] = "done" /\ m \notin collected /\ future[m].n >= 1
        /\ tasks_config = Template

(* C33: the list process_attendees returns has at every position the       *)
(* outcome of the item at that position of the batch, whatever the order   *)
(* in which the enrichment calls of the batch returned.                    *)
C33_OutcomeOrderIsInputOrder ==
    \A i \in Batches : bpc[i] = "kickoff" =>
        /\ DOMAIN search_results[i] = DOMAIN preprocess_attendees(i)
        /\ \A p \in DOMAIN search_results[i] :
              search_results[i][p].item = preprocess_attendees(i)[p]

(* C33 witness: the list has been returned for a batch whose last item's   *)
(* call returned first.                                                    *)
C33_Witness ==
    \E i \in Batches :
        /\ bpc[i] = "kickoff"
        /\ Len(search_results[i]) >= 2
        /\ Len(completed[i]) = Len(search_results[i])
        /\ completed[i][1] = Len(search_results[i])
        /\ search_results[i][1].item = preprocess_attendees(i)[1]

C36_RunsDoNotAccumulate ==
    /\ [](\A c \in DOMAIN analyze_returns :
            \A p \in DOMAIN lists[analyze_returns[c]] :
                lists[analyze_returns[c]][p].call = c)
    /\ [][\A c \in DOMAIN analyze_returns :
            lists'[analyze_returns[c]] = lists[analyze_returns[c]]]_vars

(* C36 witness: a second call is collecting its records into its own list  *)
(* while the list the first call returned still holds the records of the   *)
(* first call.                                                             *)
C36_Witness ==
    /\ calls_made = 2
    /\ cpc = "collect"
    /\ Len(analyze_returns) = 1
    /\ lists[analyze_returns[1]] # <<>>
    /\ lists[self_all_results] # <<>>
    /\ self_all_results # analyze_returns[1]

(* the text holds no fence marker: no three consecutive backticks *)
NoFence(t) == \A p \in DOMAIN t : ~StartsWith(t, p, Fence)

(* the text holds none of the two enumerations of the repair table *)
NoEnumeration(t) == Occurrences1(t) = {} /\ Occurrences2(t) = {}

(* C37 as stated: clean_json_text is idempotent for every input text, a    *)
(* second pass over a cleaned text returns it unchanged.                   *)
C37_Idempotent ==
    rpc = "cleaned" => clean_json_text(cleaned_text) = cleaned_text

(* C37, amended: one pass of clean_json_text leaves no fence marker, and a *)
(* second pass changes nothing but the enumerations the first pass left:   *)
(* the fence stripping of a cleaned text is the identity, and a cleaned    *)
(* text that holds no enumeration is a fixed point of clean_json_text.     *)
C37_IdempotentUpToEnumerations ==
    rpc = "cleaned" =>
        /\ NoFence(cleaned_text)
        /\ StripFences(cleaned_text) = cleaned_text
        /\ clean_json_text(cleaned_text) = Collapsed(cleaned_text)
        /\ NoEnumeration(cleaned_text) => clean_json_text(cleaned_text) = cleaned_text

C37_Witness ==
    /\ rpc = "cleaned"
    /\ ~NoFence(raw)
    /\ ~NoEnumeration(StripFences(raw))
    /\ cleaned_text # raw
    /\ NoEnumeration(cleaned_text)
    /\ clean_json_text(cleaned_text) = cleaned_text

(* the organization of a kept record as a text, empty when it is None *)
OrganizationText(r) == r.organization.s

(* a step puts another record in the place of the kept record at p *)
Replaced(p) ==
    /\ p \in DOMAIN attendees_by_email
    /\ p \in DOMAIN attendees_by_email'
    /\ attendees_by_email'[p] # attendees_by_email[p]

(* C38: for every sequence of input rows preprocess_attendee_data returns  *)
(* at most one record per distinct email, skips every row whose email is   *)
(* blank, and for a repeated email never replaces the kept record by one   *)
(* whose organization is shorter or whose first or last name is blank      *)
(* where the kept record's was not.                                        *)
C38_DedupByEmail ==
    /\ [](preprocessed.tag = "list" =>
            \A p, q \in DOMAIN preprocessed.v :
                /\ preprocessed.v[p].email # <<>>
                /\ preprocessed.v[p].email = preprocessed.v[q].email => p = q)
    /\ [][\A row \in Rows :
             (ReadRow(row) /\ CellText(row.email) = <<>>) =>
                 /\ attendees_by_email' = attendees_by_email
                 /\ skipped_rows' = skipped_rows + 1]_vars
    /\ [][\A p \in DOMAIN attendees_by_email :
             Replaced(p) =>
                 /\ attendees_by_email'[p].email = attendees_by_email[p].email
                 /\ Len(OrganizationText(attendees_by_email'[p]))
                        >= Len(OrganizationText(attendees_by_email[p]))
                 /\ attendees_by_email[p].first_name # <<>>
                        => attendees_by_email'[p].first_name # <<>>
                 /\ attendees_by_email[p].last_name # <<>>
                        => attendees_by_email'[p].last_name # <<>>]_vars

====
